---------------------------- MODULE Spec2Model ----------------------------
(* A model of concordia/Concordia_logic.py: the Concordia class with its   *)
(* Redis model cache (rdb), its MongoDB record store (mdb) and the methods *)
(* that register models, resolve identities, ingest records and predict.   *)
(* Every method is an operator from the instance (self) and its arguments  *)
(* to an outcome: the instance afterwards, the exception raised (if any)   *)
(* and the value returned.  An action applies one method as a whole.       *)
EXTENDS Integers, Sequences, FiniteSets, TLC

VARIABLES
    default_row_id_field,   \* self.default_row_id_field, set by __init__
    rdb,                    \* the Redis database: present keys -> bytes
    mdb,                    \* the Mongo database: collection -> documents, in insertion order
    clock,                  \* what datetime.utcnow() reads
    call,                   \* the method call whose result the caller holds, or Idle
    ret,                    \* how that call ended: exception raised, value returned
    io,                     \* the driver and model calls that call made, in order
    getters                 \* the _get_model calls in progress, line by line, one per instance

vars == <<default_row_id_field, rdb, mdb, clock, call, ret, io, getters>>

---------------------------------------------------------------------------
(* Bounds of the model.                                                    *)

MaxModelInfo == 2      \* model_info documents the store may hold
MaxLive == 2           \* live_features documents the store may hold
MaxDocs == 2           \* documents the label and training collections may hold together
MaxClock == 1          \* ticks of the clock

---------------------------------------------------------------------------
(* Python values.  Every value carries its type, so that isinstance and    *)
(* "is None" are tests on the tag.                                         *)

PyNone == [t |-> "None"]
PyStr(s) == [t |-> "str", v |-> s]
PyInt(n) == [t |-> "int", v |-> n]
NpScalar(n) == [t |-> "np.generic", v |-> n]
PyList(s) == [t |-> "list", v |-> s]
NdArray(s) == [t |-> "np.ndarray", v |-> s]
PyDict(f) == [t |-> "dict", v |-> f]
DataFrame(cols, rows) == [t |-> "DataFrame", columns |-> cols, rows |-> rows]
DateTime(n) == [t |-> "datetime", v |-> n]
ObjectId(n) == [t |-> "ObjectId", v |-> n]
ModelObj(name) == [t |-> "model", v |-> name]

IsNone(x) == x.t = "None"

\* '{}'.format(x) for the values used as identifiers
Str(x) == IF x.t = "None" THEN "None" ELSE IF x.t = "str" THEN x.v ELSE x.t

\* dict.get(key, None) on the contents of a dict
DictGet(d, key) ==
    IF key.t = "str" /\ key.v \in DOMAIN d THEN d[key.v] ELSE PyNone

DictSet(d, k, x) == (k :> x) @@ d

DictDel(d, k) == [j \in DOMAIN d \ {k} |-> d[j]]

\* np.asscalar on a numpy scalar
asscalar(x) == PyInt(x.v)

\* the loop "if isinstance(v, np.generic): val[k] = np.asscalar(v)"
ScalarizeValues(d) ==
    [k \in DOMAIN d |-> IF d[k].t = "np.generic" THEN asscalar(d[k]) ELSE d[k]]

---------------------------------------------------------------------------
(* Outcomes of a method: it returns a value or raises an exception; either *)
(* way the instance may have changed.                                      *)

Return(self, value) == [self |-> self, exc |-> "", msg |-> "", value |-> value]
Raise(self, exc, msg) == [self |-> self, exc |-> exc, msg |-> msg, value |-> PyNone]
Raised(o) == o.exc # ""

Log(self, op, coll, n) ==
    [self EXCEPT !.io = Append(@, [op |-> op, coll |-> coll, n |-> n])]

---------------------------------------------------------------------------
(* The model codec: dill.dumps, codecs.encode(.., 'base64'), bytes.decode, *)
(* and back.  Redis stores a str as its bytes and returns bytes.           *)

dill_dumps(model) == [t |-> "bytes", enc |-> "dill", of |-> model.v]
base64_encode(b) == [t |-> "bytes", enc |-> "base64", of |-> b]
bytes_decode(b) == [b EXCEPT !.t = "str"]
str_encode(s) == [s EXCEPT !.t = "bytes"]
\* codecs.decode(x, 'base64') accepts bytes only
base64_decodable(x) == x.t = "bytes" /\ x.enc = "base64"
base64_decode(b) == b.of
dill_loads(b) == ModelObj(b.of)

stringify_model(model) == bytes_decode(base64_encode(dill_dumps(model)))

---------------------------------------------------------------------------
(* The two drivers.                                                        *)

ValTypes == {"concordia_config", "model_info", "live_features", "live_predictions",
             "live_labels", "training_features", "training_predictions",
             "training_labels"}

TotalDocs(m) ==
    Len(m["concordia_config"]) + Len(m["model_info"]) + Len(m["live_features"])
    + Len(m["live_predictions"]) + Len(m["live_labels"]) + Len(m["training_features"])
    + Len(m["training_predictions"]) + Len(m["training_labels"])

Min(a, b) == IF a < b THEN a ELSE b

\* pymongo gives a document without _id a fresh ObjectId
WithOid(doc, n) == IF "_id" \in DOMAIN doc THEN doc ELSE DictSet(doc, "_id", ObjectId(n))

SameIdentity(a, b) ==
    /\ {"row_id", "model_id"} \subseteq DOMAIN a \cap DOMAIN b
    /\ a["row_id"] = b["row_id"]
    /\ a["model_id"] = b["model_id"]

\* a write that replaces the collection by the new documents
insert_many_replacing(self, val_type, docs) ==
    LET base == TotalDocs(self.mdb)
        s1 == [self EXCEPT !.mdb[val_type] =
                              [i \in 1..Len(docs) |-> WithOid(docs[i], base + i)]]
    IN  Log(s1, "mdb.insert_many", val_type, Len(docs))

\* a write that replaces the stored document of the same identity, if there is one
insert_one_upserting(self, val_type, doc) ==
    LET old == self.mdb[val_type]
        new == WithOid(doc, TotalDocs(self.mdb) + 1)
        s1 == [self EXCEPT !.mdb[val_type] =
                   IF \E i \in DOMAIN old : SameIdentity(old[i], new)
                   THEN [i \in DOMAIN old |->
                            IF SameIdentity(old[i], new) THEN new ELSE old[i]]
                   ELSE Append(old, new)]
    IN  Log(s1, "mdb.insert_one", val_type, 1)

\* a write that stores the document under a null row_id
insert_one_without_identity(self, val_type, doc) ==
    LET s1 == [self EXCEPT !.mdb[val_type] =
                   Append(@, WithOid(DictSet(doc, "row_id", PyNone),
                                     TotalDocs(self.mdb) + 1))]
    IN  Log(s1, "mdb.insert_one", val_type, 1)

\* collection.insert_one(doc)
insert_one(self, val_type, doc) ==
    LET s1 == [self EXCEPT !.mdb[val_type] =
                   Append(@, WithOid(doc, TotalDocs(self.mdb) + 1))]
    IN  Log(s1, "mdb.insert_one", val_type, 1)

\* collection.insert_many(docs).  The call is ordered: the documents go in one
\* after the other.  A driver that fails (self.faulty, after self.serves
\* calls it served) raises from the call, having written the first
\* self.partial documents of it at most.
insert_many(self, val_type, docs) ==
    LET base == TotalDocs(self.mdb)
        fails == self.faulty /\ self.serves = 0
        upto == IF fails THEN Min(self.partial, Len(docs) - 1) ELSE Len(docs)
        s1 == [self EXCEPT !.mdb[val_type] =
                              @ \o [i \in 1..upto |-> WithOid(docs[i], base + i)],
                           !.serves = IF self.faulty /\ @ > 0 THEN @ - 1 ELSE @,
                           !.failed = fails]
    IN  Log(s1, IF fails THEN "mdb.insert_many raised" ELSE "mdb.insert_many",
            val_type, upto)

\* a match that takes {'$gte': bound} as strictly later than bound
MatchesField_strict(doc, k, cond) ==
    /\ k \in DOMAIN doc
    /\ IF cond.t = "$gte"
       THEN doc[k].t = "datetime" /\ doc[k].v > cond.v.v
       ELSE doc[k] = cond

\* one entry of a query matches a document: equality, or {'$gte': bound}
MatchesField(doc, k, cond) ==
    /\ k \in DOMAIN doc
    /\ IF cond.t = "$gte"
       THEN doc[k].t = "datetime" /\ doc[k].v >= cond.v.v
       ELSE doc[k] = cond

Matches(doc, query) == \A k \in DOMAIN query : MatchesField(doc, k, query[k])

Select(docs, query) == SelectSeq(docs, LAMBDA d : Matches(d, query))

\* The order of a cursor without a sort is the store's choice: `first` is the
\* matching document the cursor yields first.
Rotate(s, first) ==
    IF Len(s) = 0 THEN s
    ELSE LET k == ((first - 1) % Len(s)) + 1
         IN  SubSeq(s, k, Len(s)) \o SubSeq(s, 1, k - 1)

\* collection.find(query), as a list
find(self, val_type, query, first) == Rotate(Select(self.mdb[val_type], query), first)

\* rdb.get(key): has_key tells a hit from None
rdb_has(self, key) == key \in DOMAIN self.rdb
rdb_get(self, key) == self.rdb[key]
\* a set that leaves an existing entry as it is (SET .. NX)
rdb_set_if_absent(self, key, value) ==
    Log([self EXCEPT !.rdb = @ @@ (key :> str_encode(value))], "rdb.set", "redis", 0)

\* a set that stores the str as it is, not as bytes
rdb_set_unencoded(self, key, value) ==
    Log([self EXCEPT !.rdb = (key :> value) @@ @], "rdb.set", "redis", 0)

rdb_set(self, key, value) ==
    Log([self EXCEPT !.rdb = (key :> str_encode(value)) @@ @], "rdb.set", "redis", 0)

---------------------------------------------------------------------------
(* pandas: a DataFrame is a set of column names and a sequence of rows.    *)

\* pd.DataFrame(d) for a dict d of columns: lists give the rows, scalars are
\* broadcast; all-scalar input and lists of unequal length raise ValueError.
FrameLists(d) == {k \in DOMAIN d : d[k].t = "list"}

FrameConstructible(d) ==
    /\ FrameLists(d) # {}
    /\ \A j, k \in FrameLists(d) : Len(d[j].v) = Len(d[k].v)

MakeDataFrame(d) ==
    LET n == Len(d[CHOOSE k \in FrameLists(d) : TRUE].v)
    IN  DataFrame(DOMAIN d,
                  [i \in 1..n |->
                      [k \in DOMAIN d |-> IF d[k].t = "list" THEN d[k].v[i] ELSE d[k]]])

\* df[name] = value: a list is taken by position and must have one item per
\* row, anything else is broadcast to every row
ColumnAssignable(df, value) == value.t = "list" => Len(value.v) = Len(df.rows)

SetColumn(df, name, value) ==
    DataFrame(df.columns \cup {name},
              [i \in 1..Len(df.rows) |->
                  DictSet(df.rows[i], name,
                          IF value.t = "list" THEN value.v[i] ELSE value)])

DropColumn(df, name) ==
    DataFrame(df.columns \ {name},
              [i \in 1..Len(df.rows) |-> DictDel(df.rows[i], name)])

\* df[name], a Series, as the list of its values
Column(df, name) == PyList([i \in 1..Len(df.rows) |-> df.rows[i][name]])

---------------------------------------------------------------------------
(* Concordia.check_row_id and Concordia.check_model_id                     *)

\* check_row_id that resolves the default field but does not write row_id
check_row_id_unwritten(self, val, row_id, idx) ==
    IF row_id.t = "list" /\ idx.t # "int"
    THEN Raise(self, "TypeError", "list indices must be integers")
    ELSE LET rid == IF row_id.t = "list" THEN row_id.v[idx.v + 1] ELSE row_id
         IN  IF IsNone(rid)
             THEN LET calculated_row_id == DictGet(val, self.default_row_id_field)
                  IN  IF IsNone(calculated_row_id)
                      THEN Raise(self, "ValueError", "Missing \"row_id\" field")
                      ELSE Return(self, val)
             ELSE Return(self, DictSet(val, "row_id", rid))

check_row_id(self, val, row_id, idx) ==
    IF row_id.t = "list" /\ idx.t # "int"
    THEN Raise(self, "TypeError", "list indices must be integers")
    ELSE LET rid == IF row_id.t = "list" THEN row_id.v[idx.v + 1] ELSE row_id
         IN  IF IsNone(rid)
             THEN LET calculated_row_id == DictGet(val, self.default_row_id_field)
                  IN  IF IsNone(calculated_row_id)
                      THEN Raise(self, "ValueError", "Missing \"row_id\" field")
                      ELSE Return(self, DictSet(val, "row_id", calculated_row_id))
             ELSE Return(self, DictSet(val, "row_id", rid))

\* check_model_id that prefers the model_id the payload carries
check_model_id_preferring_field(self, val, model_id, idx) ==
    IF model_id.t = "list" /\ idx.t # "int"
    THEN Raise(self, "TypeError", "list indices must be integers")
    ELSE LET mid == IF model_id.t = "list" THEN model_id.v[idx.v + 1] ELSE model_id
             calculated_model_id == DictGet(val, PyStr("model_id"))
         IN  IF IsNone(calculated_model_id)
             THEN IF IsNone(mid)
                  THEN Raise(self, "ValueError", "Missing \"model_id\" field")
                  ELSE Return(self, DictSet(val, "model_id", mid))
             ELSE Return(self, DictSet(val, "model_id", calculated_model_id))

\* check_model_id that lets a payload without model_id through
check_model_id_lenient(self, val, model_id, idx) ==
    IF model_id.t = "list" /\ idx.t # "int"
    THEN Raise(self, "TypeError", "list indices must be integers")
    ELSE LET mid == IF model_id.t = "list" THEN model_id.v[idx.v + 1] ELSE model_id
         IN  IF IsNone(mid)
             THEN Return(self, DictSet(val, "model_id", DictGet(val, PyStr("model_id"))))
             ELSE Return(self, DictSet(val, "model_id", mid))

check_model_id(self, val, model_id, idx) ==
    IF model_id.t = "list" /\ idx.t # "int"
    THEN Raise(self, "TypeError", "list indices must be integers")
    ELSE LET mid == IF model_id.t = "list" THEN model_id.v[idx.v + 1] ELSE model_id
         IN  IF IsNone(mid)
             THEN LET calculated_model_id == DictGet(val, PyStr("model_id"))
                  IN  IF IsNone(calculated_model_id)
                      THEN Raise(self, "ValueError", "Missing \"model_id\" field")
                      ELSE Return(self, DictSet(val, "model_id", calculated_model_id))
             ELSE Return(self, DictSet(val, "model_id", mid))

---------------------------------------------------------------------------
(* Concordia._insert_df_into_db                                            *)

chunk_size == 1000

\* a loop whose chunks end one row early
RECURSIVE InsertChunks_short(_, _, _, _)
InsertChunks_short(self, df, val_type, chunk_min_idx) ==
    IF chunk_min_idx < Len(df.rows)
    THEN LET max_idx == Min(Len(df.rows), chunk_min_idx + chunk_size - 1)
             df_chunk == SubSeq(df.rows, chunk_min_idx + 1, max_idx)
         IN  InsertChunks_short(insert_many(self, val_type, df_chunk), df, val_type,
                                chunk_min_idx + chunk_size)
    ELSE self

\* a loop that goes on with the next chunk after insert_many raised
RECURSIVE InsertChunks_continuing(_, _, _, _)
InsertChunks_continuing(self, df, val_type, chunk_min_idx) ==
    IF chunk_min_idx < Len(df.rows)
    THEN LET max_idx == Min(Len(df.rows), chunk_min_idx + chunk_size)
             df_chunk == SubSeq(df.rows, chunk_min_idx + 1, max_idx)
         IN  InsertChunks_continuing(insert_many(self, val_type, df_chunk), df,
                                     val_type, chunk_min_idx + chunk_size)
    ELSE self

\* a loop that steps one row less than a chunk, so that chunks overlap
RECURSIVE InsertChunks_overlapping(_, _, _, _)
InsertChunks_overlapping(self, df, val_type, chunk_min_idx) ==
    IF chunk_min_idx < Len(df.rows) /\ ~self.failed
    THEN LET max_idx == Min(Len(df.rows), chunk_min_idx + chunk_size)
             df_chunk == SubSeq(df.rows, chunk_min_idx + 1, max_idx)
         IN  InsertChunks_overlapping(insert_many(self, val_type, df_chunk), df,
                                      val_type, chunk_min_idx + chunk_size - 1)
    ELSE self

\* the while loop: one insert_many per chunk of at most chunk_size rows; an
\* exception raised by insert_many leaves the loop
RECURSIVE InsertChunks(_, _, _, _)
InsertChunks(self, df, val_type, chunk_min_idx) ==
    IF chunk_min_idx < Len(df.rows) /\ ~self.failed
    THEN LET max_idx == Min(Len(df.rows), chunk_min_idx + chunk_size)
             df_chunk == SubSeq(df.rows, chunk_min_idx + 1, max_idx)
         IN  InsertChunks(insert_many(self, val_type, df_chunk), df, val_type,
                          chunk_min_idx + chunk_size)
    ELSE self

\* 'row_id' not in df_cols and row_id is None: the default field must be a column
DefaultFieldIsColumn(self, df) ==
    /\ self.default_row_id_field.t = "str"
    /\ self.default_row_id_field.v \in df.columns

\* _insert_df_into_db that fills the row_id column from the last item of a list
_insert_df_into_db_broadcasting(self, df, val_type, row_id, model_id) ==
    LET df_cols == df.columns
        set_row == "row_id" \notin df_cols /\ ~IsNone(row_id)
        set_model == "model_id" \notin df_cols /\ ~IsNone(model_id)
        one_row_id == IF row_id.t = "list" /\ Len(row_id.v) > 0
                      THEN row_id.v[Len(row_id.v)] ELSE row_id
        df1 == IF set_row THEN SetColumn(df, "row_id", one_row_id) ELSE df
        df2 == IF set_model THEN SetColumn(df1, "model_id", model_id) ELSE df1
    IN  IF "row_id" \notin df_cols /\ IsNone(row_id) /\ ~DefaultFieldIsColumn(self, df)
        THEN Raise(self, "ValueError", "Missing \"row_id\" field")
        ELSE IF "model_id" \notin df_cols /\ IsNone(model_id)
        THEN Raise(self, "ValueError", "Missing \"model_id\" field")
        ELSE Return(InsertChunks(self, df2, val_type, 0), PyNone)

_insert_df_into_db(self, df, val_type, row_id, model_id) ==
    LET df_cols == df.columns
        set_row == "row_id" \notin df_cols /\ ~IsNone(row_id)
        set_model == "model_id" \notin df_cols /\ ~IsNone(model_id)
        df1 == IF set_row THEN SetColumn(df, "row_id", row_id) ELSE df
        df2 == IF set_model THEN SetColumn(df1, "model_id", model_id) ELSE df1
    IN  IF set_row /\ ~ColumnAssignable(df, row_id)
        THEN Raise(self, "ValueError", "Length of values does not match length of index")
        ELSE IF "row_id" \notin df_cols /\ IsNone(row_id) /\ ~DefaultFieldIsColumn(self, df)
        THEN Raise(self, "ValueError", "Missing \"row_id\" field")
        ELSE IF set_model /\ ~ColumnAssignable(df1, model_id)
        THEN Raise(self, "ValueError", "Length of values does not match length of index")
        ELSE IF "model_id" \notin df_cols /\ IsNone(model_id)
        THEN Raise(self, "ValueError", "Missing \"model_id\" field")
        ELSE LET done == InsertChunks(self, df2, val_type, 0)
             IN  IF done.failed
                 THEN Raise(done, "DriverError", "insert_many raised")
                 ELSE Return(done, PyNone)

---------------------------------------------------------------------------
(* Concordia.insert_into_persistent_db                                     *)

Instance == [t |-> "Concordia"]

\* insert_into_persistent_db that leaves _id and _id_ on the record
insert_into_persistent_db_keeping_ids(self, val, val_type, row_id, model_id) ==
    IF val.t \notin {"dict", "DataFrame", "list"}
    THEN Raise(self, "AttributeError", "object has no attribute 'copy'")
    ELSE IF val.t = "list"
    THEN Raise(self, "TypeError", "list indices must be integers")
    ELSE IF val.t = "dict"
    THEN LET v2 == DictSet(val.v, "_concordia_created_at", DateTime(self.now))
             o1 == check_row_id(self, v2, row_id, PyNone)
             o2 == check_model_id(self, o1.value, model_id, PyNone)
         IN  IF Raised(o1) THEN o1
             ELSE IF Raised(o2) THEN o2
             ELSE Return(insert_one(self, val_type, ScalarizeValues(o2.value)), Instance)
    ELSE LET d2 == SetColumn(val, "_concordia_created_at", DateTime(self.now))
             o == _insert_df_into_db(self, d2, val_type, row_id, model_id)
         IN  IF Raised(o) THEN o ELSE Return(o.self, Instance)

insert_into_persistent_db(self, val, val_type, row_id, model_id) ==
    IF val.t \notin {"dict", "DataFrame", "list"}
    THEN Raise(self, "AttributeError", "object has no attribute 'copy'")
    ELSE IF val.t = "list"
    THEN Raise(self, "TypeError", "list indices must be integers")
    ELSE IF val.t = "dict"
    THEN LET v1 == DictDel(DictDel(val.v, "_id"), "_id_")
             v2 == DictSet(v1, "_concordia_created_at", DateTime(self.now))
             o1 == check_row_id(self, v2, row_id, PyNone)
             o2 == check_model_id(self, o1.value, model_id, PyNone)
         IN  IF Raised(o1) THEN o1
             ELSE IF Raised(o2) THEN o2
             ELSE Return(insert_one(self, val_type, ScalarizeValues(o2.value)), Instance)
    ELSE LET d1 == DropColumn(DropColumn(val, "_id"), "_id_")
             d2 == SetColumn(d1, "_concordia_created_at", DateTime(self.now))
             o == _insert_df_into_db(self, d2, val_type, row_id, model_id)
         IN  IF Raised(o) THEN o ELSE Return(o.self, Instance)

---------------------------------------------------------------------------
(* Concordia.retrieve_from_persistent_db                                   *)

\* query_params that never filters on model_id
QueryParams_without_model_id(row_id, model_id, min_date, date_field) ==
    LET ids == [k \in ({"row_id"} \ (IF IsNone(row_id) THEN {"row_id"} ELSE {}))
                  |-> row_id]
    IN  IF IsNone(min_date) THEN ids
        ELSE IF IsNone(date_field)
        THEN DictSet(ids, "_concordia_created_at", [t |-> "$gte", v |-> min_date])
        ELSE DictSet(ids, date_field.v, [t |-> "$gte", v |-> min_date])

\* query_params: the given ids, and the $gte bound on the date field
QueryParams(row_id, model_id, min_date, date_field) ==
    LET ids == [k \in ({"row_id"} \ (IF IsNone(row_id) THEN {"row_id"} ELSE {}))
                      \cup ({"model_id"} \ (IF IsNone(model_id) THEN {"model_id"} ELSE {}))
                  |-> IF k = "row_id" THEN row_id ELSE model_id]
    IN  IF IsNone(min_date) THEN ids
        ELSE IF IsNone(date_field)
        THEN DictSet(ids, "_concordia_created_at", [t |-> "$gte", v |-> min_date])
        ELSE DictSet(ids, date_field.v, [t |-> "$gte", v |-> min_date])

retrieve_from_persistent_db(self, val_type, row_id, model_id, min_date, date_field, first) ==
    LET result == find(self, val_type,
                       QueryParams(row_id, model_id, min_date, date_field), first)
    IN  Return(Log(self, "mdb.find", val_type, 0), PyList(result))

---------------------------------------------------------------------------
(* Concordia.make_redis_model_key, Concordia.add_model, Concordia._get_model *)

make_redis_model_key(model_id) == <<"_concordia", Str(model_id), "model">>

\* the loop over feature_importances.items()
ScalarizeImportances(feature_importances) == PyDict(ScalarizeValues(feature_importances.v))

json_dumps(x) == [t |-> "str", json |-> x]

add_model(self, model, model_id, feature_names, feature_importances, description) ==
    LET redis_key_model == make_redis_model_key(model_id)
        stringified_model == stringify_model(model)
        s1 == rdb_set(self, redis_key_model, stringified_model)
        mdb_doc == [val_type |-> PyStr("model_info"),
                    model |-> stringified_model,
                    model_id |-> model_id,
                    feature_names |-> feature_names,
                    feature_importances |->
                        json_dumps(ScalarizeImportances(feature_importances)),
                    description |-> description,
                    date_added |-> DateTime(self.now)]
        o == insert_into_persistent_db(s1, PyDict(mdb_doc), "model_info",
                                       model_id, model_id)
    IN  IF feature_importances.t # "dict"
        THEN Raise(s1, "AttributeError", "object has no attribute 'items'")
        ELSE IF Raised(o) THEN o ELSE Return(o.self, Instance)

NoModelMessage(model_id) ==
    <<"We could not find a corresponding model for model_id", Str(model_id)>>

\* _get_model that decodes what the store returned and leaves the cache as it was
_get_model_without_refill(self, model_id, first) ==
    LET redis_key_model == make_redis_model_key(model_id)
        s1 == Log(self, "rdb.get", "redis", 0)
        q == retrieve_from_persistent_db(s1, "model_info", PyNone, model_id,
                                         PyNone, PyNone, first)
        mdb_result == q.value.v
        miss == ~rdb_has(self, redis_key_model)
        redis_result == IF miss THEN str_encode(mdb_result[1]["model"])
                                ELSE rdb_get(s1, redis_key_model)
    IN  IF miss /\ Len(mdb_result) = 0
        THEN Raise(q.self, "ValueError", NoModelMessage(model_id))
        ELSE Return(IF miss THEN q.self ELSE s1, dill_loads(base64_decode(redis_result)))

_get_model(self, model_id, first) ==
    LET redis_key_model == make_redis_model_key(model_id)
        s1 == Log(self, "rdb.get", "redis", 0)
        q == retrieve_from_persistent_db(s1, "model_info", PyNone, model_id,
                                         PyNone, PyNone, first)
        mdb_result == q.value.v
        model == mdb_result[1]["model"]
        s2 == Log(rdb_set(q.self, redis_key_model, model), "rdb.get", "redis", 0)
        miss == ~rdb_has(self, redis_key_model)
        s3 == IF miss THEN s2 ELSE s1
        redis_result == rdb_get(s3, redis_key_model)
    IN  IF miss /\ Len(mdb_result) = 0
        THEN Raise(q.self, "ValueError", NoModelMessage(model_id))
        ELSE IF ~base64_decodable(redis_result)
        THEN Raise(s3, "TypeError", "decoding with 'base64' codec failed")
        ELSE Return(s3, dill_loads(base64_decode(redis_result)))

---------------------------------------------------------------------------
(* Concordia.add_label                                                     *)

IsScalarId(x) == x.t \in {"int", "float", "np.generic", "str"}

add_label(self, row_id, model_id, label) ==
    LET as_columns == [row_id |-> row_id,
                       model_id |-> IF model_id.t = "str"
                                    THEN PyList([i \in 1..Len(row_id.v) |-> model_id])
                                    ELSE model_id,
                       label |-> label]
        label_df == MakeDataFrame(as_columns)
        label_doc == PyDict([row_id |-> row_id, model_id |-> model_id, label |-> label])
    IN  IF IsScalarId(row_id)
        THEN insert_into_persistent_db(self, label_doc, "live_labels", row_id, model_id)
        ELSE IF model_id.t = "str" /\ row_id.t # "list"
        THEN Raise(self, "TypeError", "object has no len()")
        ELSE IF ~FrameConstructible(as_columns)
        THEN Raise(self, "ValueError", "DataFrame constructor: bad columns")
        ELSE insert_into_persistent_db(self, label_df, "live_labels",
                                       Column(label_df, "row_id"),
                                       Column(label_df, "model_id"))

---------------------------------------------------------------------------
(* Concordia.add_data_and_predictions: its first statement assigns into    *)
(* `data`, a name the method never binds.                                  *)

add_data_and_predictions(self, model_id, features, predictions, row_ids) ==
    Raise(self, "NameError", "name 'data' is not defined")

---------------------------------------------------------------------------
(* Concordia.match_training_and_live.  The method is defined without       *)
(* `self`: called on an instance with keyword arguments, the instance is   *)
(* bound to df_train as well and the call raises TypeError; called so that *)
(* the arguments bind, its first statement reads the local `row_id`, which *)
(* is only assigned further down, and raises UnboundLocalError.            *)

match_training_and_live(self, df_train, df_live, row_id_field, by_keyword) ==
    IF by_keyword
    THEN Raise(self, "TypeError", "got multiple values for argument 'df_train'")
    ELSE Raise(self, "UnboundLocalError",
               "local variable 'row_id' referenced before assignment")

---------------------------------------------------------------------------
(* The model object: predict and predict_proba are functions of the model  *)
(* and the features; a dict gives one prediction, a DataFrame one per row. *)

Output(model, row, kind) == NpScalar([by |-> model.v, kind |-> kind, of |-> row])

ProbaOf(model, row) == NdArray(<<Output(model, row, "p0"), Output(model, row, "p1")>>)

model_predict(model, features) ==
    IF features.t = "dict"
    THEN Output(model, features.v, "predict")
    ELSE NdArray([i \in 1..Len(features.rows) |->
                     Output(model, features.rows[i], "predict")])

model_predict_proba(model, features) ==
    IF features.t = "dict"
    THEN ProbaOf(model, features.v)
    ELSE NdArray([i \in 1..Len(features.rows) |-> ProbaOf(model, features.rows[i])])

\* "Mongo doesn't handle np.ndarrays. it prefers lists."
CleanPrediction(prediction) ==
    IF prediction.t = "np.ndarray"
    THEN PyList([i \in 1..Len(prediction.v) |->
                    IF prediction.v[i].t = "np.ndarray"
                    THEN PyList(prediction.v[i].v)
                    ELSE prediction.v[i]])
    ELSE prediction

---------------------------------------------------------------------------
(* Concordia._predict, behind predict (proba = FALSE) and predict_proba    *)
(* (proba = TRUE).  model_raises: the model's own method raises.           *)

\* features[self.default_row_id_field]
HasField(features, field) ==
    /\ field.t = "str"
    /\ IF features.t = "dict" THEN field.v \in DOMAIN features.v
                              ELSE field.v \in features.columns

FieldOf(features, field) ==
    IF features.t = "dict" THEN features.v[field.v] ELSE Column(features, field.v)

\* a guard that lets every call through
MissingRowId_unchecked(self, row_id) == FALSE

\* "if row_id is None and self.default_row_id_field is None"
MissingRowId(self, row_id) == IsNone(row_id) /\ IsNone(self.default_row_id_field)

\* _predict that calls the model before it saves the features
_predict_invoking_first(self, features, model_id, row_id, proba, first, model_raises) ==
    LET g == _get_model(self, model_id, first)
        model == g.value
        rid == IF IsNone(row_id) THEN FieldOf(features, self.default_row_id_field)
                                 ELSE row_id
        s0 == Log(g.self, IF proba THEN "model.predict_proba" ELSE "model.predict",
                  "model", 0)
        f == insert_into_persistent_db(s0, features, "live_features", rid, model_id)
        prediction == IF proba THEN model_predict_proba(model, features)
                               ELSE model_predict(model, features)
        pred_doc == [prediction |-> CleanPrediction(prediction), row_id |-> rid,
                     model_id |-> model_id]
        p == insert_into_persistent_db(
                 f.self,
                 IF features.t = "DataFrame" THEN MakeDataFrame(pred_doc)
                                             ELSE PyDict(pred_doc),
                 "live_predictions", rid, model_id)
    IN  IF MissingRowId(self, row_id)
        THEN Raise(self, "ValueError", "Missing row_id")
        ELSE IF Raised(g) THEN g
        ELSE IF IsNone(row_id) /\ ~HasField(features, self.default_row_id_field)
        THEN Raise(g.self, "KeyError", Str(self.default_row_id_field))
        ELSE IF model_raises THEN Raise(s0, "ModelError", "the model's method raised")
        ELSE IF Raised(f) THEN f
        ELSE IF features.t = "DataFrame" /\ ~FrameConstructible(pred_doc)
        THEN Raise(f.self, "ValueError", "DataFrame constructor: bad columns")
        ELSE IF Raised(p) THEN p
        ELSE Return(p.self, prediction)

\* _predict that returns the normalised copy it saved
_predict_returning_saved(self, features, model_id, row_id, proba, first, model_raises) ==
    LET g == _get_model(self, model_id, first)
        model == g.value
        rid == IF IsNone(row_id) THEN FieldOf(features, self.default_row_id_field)
                                 ELSE row_id
        f == insert_into_persistent_db(g.self, features, "live_features", rid, model_id)
        s1 == Log(f.self, IF proba THEN "model.predict_proba" ELSE "model.predict",
                  "model", 0)
        prediction == IF proba THEN model_predict_proba(model, features)
                               ELSE model_predict(model, features)
        pred_for_saving == CleanPrediction(prediction)
        pred_doc == [prediction |-> pred_for_saving, row_id |-> rid,
                     model_id |-> model_id]
        p == insert_into_persistent_db(
                 s1,
                 IF features.t = "DataFrame" THEN MakeDataFrame(pred_doc)
                                             ELSE PyDict(pred_doc),
                 "live_predictions", rid, model_id)
    IN  IF MissingRowId(self, row_id)
        THEN Raise(self, "ValueError", "Missing row_id")
        ELSE IF Raised(g) THEN g
        ELSE IF IsNone(row_id) /\ ~HasField(features, self.default_row_id_field)
        THEN Raise(g.self, "KeyError", Str(self.default_row_id_field))
        ELSE IF Raised(f) THEN f
        ELSE IF model_raises THEN Raise(s1, "ModelError", "the model's method raised")
        ELSE IF features.t = "DataFrame" /\ ~FrameConstructible(pred_doc)
        THEN Raise(s1, "ValueError", "DataFrame constructor: bad columns")
        ELSE IF Raised(p) THEN p
        ELSE Return(p.self, pred_for_saving)

_predict(self, features, model_id, row_id, proba, first, model_raises) ==
    LET g == _get_model(self, model_id, first)
        model == g.value
        rid == IF IsNone(row_id) THEN FieldOf(features, self.default_row_id_field)
                                 ELSE row_id
        f == insert_into_persistent_db(g.self, features, "live_features", rid, model_id)
        s1 == Log(f.self, IF proba THEN "model.predict_proba" ELSE "model.predict",
                  "model", 0)
        prediction == IF proba THEN model_predict_proba(model, features)
                               ELSE model_predict(model, features)
        pred_for_saving == CleanPrediction(prediction)
        pred_doc == [prediction |-> pred_for_saving, row_id |-> rid,
                     model_id |-> model_id]
        p == insert_into_persistent_db(
                 s1,
                 IF features.t = "DataFrame" THEN MakeDataFrame(pred_doc)
                                             ELSE PyDict(pred_doc),
                 "live_predictions", rid, model_id)
    IN  IF MissingRowId(self, row_id)
        THEN Raise(self, "ValueError", "Missing row_id")
        ELSE IF Raised(g) THEN g
        ELSE IF IsNone(row_id) /\ ~HasField(features, self.default_row_id_field)
        THEN Raise(g.self, "KeyError", Str(self.default_row_id_field))
        ELSE IF Raised(f) THEN f
        ELSE IF model_raises THEN Raise(s1, "ModelError", "the model's method raised")
        ELSE IF features.t = "DataFrame" /\ ~FrameConstructible(pred_doc)
        THEN Raise(s1, "ValueError", "DataFrame constructor: bad columns")
        ELSE IF Raised(p) THEN p
        ELSE Return(p.self, prediction)

predict(self, model_id, features, row_id, first, model_raises) ==
    _predict(self, features, model_id, row_id, FALSE, first, model_raises)

predict_proba(self, model_id, features, row_id, first, model_raises) ==
    _predict(self, features, model_id, row_id, TRUE, first, model_raises)

---------------------------------------------------------------------------
(* The caller's payload.  A method works on the object its local name is   *)
(* bound to: "caller" is the object the caller passed, "copy" an object    *)
(* made by .copy().  What the method and the driver write goes to the      *)
(* caller's object only if the local name is still bound to it.            *)

\* a copy() that gives back the object itself
py_copy_aliasing(obj) == obj

\* val.copy(), features.copy(): a new object
py_copy(obj) == "copy"

\* the object `val` names when insert_into_persistent_db is done with it: the
\* keys deleted and set up to the statement that raised, and the _id that
\* insert_one sets on the document it is given
WrittenByInsert(self, val, val_type, row_id, model_id) ==
    IF val.t = "dict"
    THEN LET v1 == DictDel(DictDel(val.v, "_id"), "_id_")
             v2 == DictSet(v1, "_concordia_created_at", DateTime(self.now))
             o1 == check_row_id(self, v2, row_id, PyNone)
             o2 == check_model_id(self, o1.value, model_id, PyNone)
         IN  PyDict(IF Raised(o1) THEN v2
                    ELSE IF Raised(o2) THEN o1.value
                    ELSE WithOid(ScalarizeValues(o2.value), TotalDocs(self.mdb) + 1))
    ELSE IF val.t = "DataFrame"
    THEN LET d1 == DropColumn(DropColumn(val, "_id"), "_id_")
             d2 == SetColumn(d1, "_concordia_created_at", DateTime(self.now))
             set_row == "row_id" \notin d2.columns /\ ~IsNone(row_id)
             set_model == "model_id" \notin d2.columns /\ ~IsNone(model_id)
             df1 == IF set_row /\ ColumnAssignable(d2, row_id)
                    THEN SetColumn(d2, "row_id", row_id) ELSE d2
             row_ok == /\ set_row => ColumnAssignable(d2, row_id)
                       /\ \/ "row_id" \in d2.columns
                          \/ ~IsNone(row_id)
                          \/ DefaultFieldIsColumn(self, d2)
         IN  IF row_ok /\ set_model /\ ColumnAssignable(df1, model_id)
             THEN SetColumn(df1, "model_id", model_id)
             ELSE df1
    ELSE val

\* the caller's payload after insert_into_persistent_db(val, ..): line 228
\* rebinds val to val.copy()
PayloadAfterInsert(self, val, val_type, row_id, model_id) ==
    IF val.t \in {"dict", "DataFrame"} /\ py_copy("caller") = "caller"
    THEN WrittenByInsert(self, val, val_type, row_id, model_id)
    ELSE val

\* the caller's features after _predict: line 349 rebinds features to
\* features.copy(), and line 359 passes that object to insert_into_persistent_db
PayloadAfterPredict(self, features, model_id, row_id, first) ==
    LET local == py_copy("caller")
        g == _get_model(self, model_id, first)
        rid == IF IsNone(row_id) THEN FieldOf(features, self.default_row_id_field)
                                 ELSE row_id
        inserts == /\ ~MissingRowId(self, row_id)
                   /\ ~Raised(g)
                   /\ ~IsNone(row_id) \/ HasField(features, self.default_row_id_field)
    IN  IF inserts /\ py_copy(local) = "caller"
        THEN WrittenByInsert(g.self, features, "live_features", rid, model_id)
        ELSE features

---------------------------------------------------------------------------
(* Concordia.__init__: the configuration is saved as a concordia_config    *)
(* document.                                                               *)

EmptyMdb == [c \in ValTypes |-> <<>>]

Blank(field) ==
    [default_row_id_field |-> field, rdb |-> <<>>, mdb |-> EmptyMdb, now |-> 0,
     io |-> <<>>, faulty |-> FALSE, serves |-> 0, partial |-> 0, failed |-> FALSE]

Constructed(field) ==
    LET params_to_save == [persistent_db_config |-> PyStr("localhost:27017/_concordia"),
                           in_memory_db_config |-> PyStr("localhost:6379/0"),
                           default_row_id_field |-> field]
    IN  insert_into_persistent_db(Blank(field), PyDict(params_to_save),
                                  "concordia_config", PyStr("_intentionally_blank"),
                                  PyStr("_intentionally_blank")).self

---------------------------------------------------------------------------
(* The inputs the actions draw from.                                       *)

Models == {ModelObj("A"), ModelObj("B")}
ModelIds == {PyStr("m1"), PyStr("m2")}
ModelIdArgs == ModelIds \cup {PyNone}
RowIdArgs == {PyStr("r1"), PyNone}
DefaultFields == {PyStr("name"), PyNone}
Importances == {PyNone, PyDict([age |-> NpScalar(1)])}

\* flat records: with the default row-id field, without it, and one that was
\* retrieved from the store before (it carries _id, row_id and model_id)
WithName == PyDict([name |-> PyStr("r1"), age |-> NpScalar(1)])
WithoutName == PyDict([age |-> PyInt(1)])
Retrieved ==
    PyDict([name |-> PyStr("r2"), age |-> PyInt(2), row_id |-> PyStr("r2"),
            model_id |-> PyStr("m2"), _id |-> ObjectId(0)])
FlatRecords == {WithName, WithoutName, Retrieved}

\* row i of a table with the given columns
TableRow(cols, i) ==
    [k \in cols |-> IF k = "name" THEN PyInt(i)
                    ELSE IF k = "row_id" THEN PyInt(100 + i)
                    ELSE IF k = "model_id" THEN PyStr("m2")
                    ELSE PyInt(10 + i)]

Table(cols, n) == DataFrame(cols, [i \in 1..n |-> TableRow(cols, i)])

ColumnSets == {{"name", "age"}, {"age"}, {"age", "row_id", "model_id"}}
Tables == {Table(cols, n) : cols \in ColumnSets, n \in 0..MaxDocs}

\* a list of n identifiers, PyInt(200 + i) at position i
IdList(n) == PyList([i \in 1..n |-> PyInt(200 + i)])
SameIds(n, model_id) == PyList([i \in 1..n |-> model_id])

NRows(val) == IF val.t = "DataFrame" THEN Len(val.rows) ELSE 1

---------------------------------------------------------------------------
(* The state machine.  A method runs as one step, from a state in which    *)
(* the caller holds no result (call = Idle) to one in which it holds the   *)
(* result of that call; Continue is the caller going on.                   *)

Idle == [op |-> "idle", args |-> <<>>]
NoResult == [exc |-> "", msg |-> "", value |-> PyNone]

Self ==
    [default_row_id_field |-> default_row_id_field, rdb |-> rdb, mdb |-> mdb,
     now |-> clock, io |-> <<>>, faulty |-> FALSE, serves |-> 0, partial |-> 0,
     failed |-> FALSE]

\* the instance over a store driver that serves `serves` insert_many calls and
\* fails in the next, after `partial` documents of it
FaultySelf(serves, partial) ==
    [Self EXCEPT !.faulty = TRUE, !.serves = serves, !.partial = partial]

\* the instances that run _get_model line by line
Getters == {"g1", "g2"}

\* an instance that is not in _get_model
IdleGetter ==
    [pc |-> "idle", model_id |-> PyNone, redis_result |-> PyNone, mdb_result |-> <<>>,
     known |-> FALSE, missed |-> FALSE, out |-> NoResult]

Init ==
    /\ getters = [g \in Getters |-> IdleGetter]
    /\ default_row_id_field \in DefaultFields
    /\ rdb = <<>>
    /\ mdb = Constructed(default_row_id_field).mdb
    /\ clock = 0
    /\ call = Idle
    /\ ret = NoResult
    /\ io = <<>>

WithinBounds(m) ==
    /\ Len(m["model_info"]) <= MaxModelInfo
    /\ Len(m["live_features"]) <= MaxLive
    /\ Len(m["live_predictions"]) <= MaxLive
    /\ Len(m["live_labels"]) + Len(m["training_features"])
       + Len(m["training_predictions"]) + Len(m["training_labels"]) <= MaxDocs

\* the method call c ended as the outcome o says
Ended(c, o) ==
    /\ call = Idle
    /\ rdb' = o.self.rdb
    /\ mdb' = o.self.mdb
    /\ io' = o.self.io
    /\ call' = c
    /\ ret' = [exc |-> o.exc, msg |-> o.msg, value |-> o.value]
    /\ UNCHANGED <<default_row_id_field, clock, getters>>

Apply(c, o) == call = Idle /\ WithinBounds(o.self.mdb) /\ Ended(c, o)

Continue ==
    /\ call # Idle
    /\ call' = Idle
    /\ ret' = NoResult
    /\ io' = <<>>
    /\ UNCHANGED <<default_row_id_field, rdb, mdb, clock, getters>>

\* the matching document a cursor may yield first
Firsts == 1..(IF Len(mdb["model_info"]) = 0 THEN 1 ELSE Len(mdb["model_info"]))

AddModelOf(models, ids, importances) ==
    \E model \in models, model_id \in ids, feature_importances \in importances :
        Apply([op |-> "add_model", args |-> <<model, model_id, feature_importances>>],
              add_model(Self, model, model_id, PyNone, feature_importances, PyNone))

AddModel == AddModelOf(Models, ModelIdArgs, Importances)

GetModel ==
    \E model_id \in ModelIdArgs, first \in Firsts :
        Apply([op |-> "_get_model", args |-> <<model_id>>],
              _get_model(Self, model_id, first))

\* the cache loses an entry (rdb.delete, eviction, restart)
Evict ==
    \E key \in DOMAIN rdb :
        /\ call = Idle
        /\ rdb' = [k \in DOMAIN rdb \ {key} |-> rdb[k]]
        /\ UNCHANGED <<default_row_id_field, mdb, clock, call, ret, io, getters>>

InsertOf(val_types, vals, row_ids, model_ids) ==
    \E val_type \in val_types, val \in vals, row_id \in row_ids, model_id \in model_ids :
        Apply([op |-> "insert_into_persistent_db",
               args |-> <<val, val_type, row_id, model_id>>],
              insert_into_persistent_db(Self, val, val_type, row_id, model_id))

\* insert_record: a flat record (or something that is neither record nor table)
InsertRecord ==
    InsertOf({"training_features"}, FlatRecords \cup {PyList(<<WithName>>)},
             RowIdArgs, {PyStr("m1"), PyNone})

\* insert_batch: a table, with row ids absent or listed, and the model id
\* absent, one for all rows, or listed
InsertBatch ==
    \E val \in Tables :
        InsertOf({"training_features"}, {val},
                 {PyNone, IdList(NRows(val))},
                 {PyStr("m1"), PyNone, SameIds(NRows(val), PyStr("m1"))})

\* insert_batch of a table below, at, just above and well above the chunk size
BatchSizes ==
    {0, 1, chunk_size - 1, chunk_size, chunk_size + 1,
     2 * chunk_size + chunk_size \div 2}

InsertLargeBatch ==
    \E n \in BatchSizes, model_id \in ModelIds :
      \E row_id \in {PyNone, IdList(n)} :
        /\ call = Idle
        /\ Len(mdb["training_features"]) < MaxDocs
        /\ Ended([op |-> "insert_into_persistent_db",
                  args |-> <<Table({"name", "age"}, n), "training_features",
                             row_id, model_id>>],
                 insert_into_persistent_db(Self, Table({"name", "age"}, n),
                                           "training_features", row_id, model_id))

\* insert_batch over a store driver that fails in the insert_many of chunk k,
\* after it wrote `partial` documents of that chunk
InsertBatchDriverFails ==
    \E n \in BatchSizes, model_id \in {PyStr("m1")}, k \in {0, 1, 2},
       partial \in {0, 1} :
      \E row_id \in {PyNone, IdList(n)} :
        /\ call = Idle
        /\ Len(mdb["training_features"]) < MaxDocs
        /\ Ended([op |-> "insert_into_persistent_db",
                  args |-> <<Table({"name", "age"}, n), "training_features",
                             row_id, model_id, k, partial>>],
                 insert_into_persistent_db(FaultySelf(k, partial),
                                           Table({"name", "age"}, n),
                                           "training_features", row_id, model_id))

AddLabel ==
    \E n \in 1..MaxDocs, model_id \in {PyStr("m1"), PyNone} :
        \E row_id \in {PyStr("r1"), IdList(n)}, m \in {model_id, SameIds(n, model_id)} :
            Apply([op |-> "add_label", args |-> <<row_id, m>>],
                  add_label(Self, row_id, m,
                            IF row_id.t = "list"
                            THEN PyList([i \in 1..n |-> PyInt(i)])
                            ELSE PyInt(1)))

PredictOf(ids, features_set, row_ids) ==
    \E model_id \in ids, features \in features_set, row_id \in row_ids,
       proba \in BOOLEAN, first \in Firsts, model_raises \in BOOLEAN :
        Apply([op |-> IF proba THEN "predict_proba" ELSE "predict",
               args |-> <<model_id, features, row_id, model_raises>>],
              IF proba
              THEN predict_proba(Self, model_id, features, row_id, first, model_raises)
              ELSE predict(Self, model_id, features, row_id, first, model_raises))

Predict ==
    PredictOf(ModelIdArgs, {WithName, WithoutName, Table({"name", "age"}, MaxLive)},
              RowIdArgs)

\* the cursor of a find on val_type may begin at any of its documents
FirstsOf(val_type) == 1..(IF Len(mdb[val_type]) = 0 THEN 1 ELSE Len(mdb[val_type]))

RetrieveOf(val_types, row_ids, model_ids, min_dates, date_fields) ==
    \E val_type \in val_types, row_id \in row_ids, model_id \in model_ids,
       min_date \in min_dates, date_field \in date_fields :
        \E first \in FirstsOf(val_type) :
            Apply([op |-> "retrieve_from_persistent_db",
                   args |-> <<val_type, row_id, model_id, min_date, date_field>>],
                  retrieve_from_persistent_db(Self, val_type, row_id, model_id,
                                              min_date, date_field, first))

\* the timestamps a caller may ask for
MinDates == {PyNone} \cup {DateTime(t) : t \in 0..MaxClock}

\* a record with a timestamp field of its own
Dated == PyDict([name |-> PyStr("r1"), seen_at |-> DateTime(1)])

Retrieve ==
    RetrieveOf({"training_features"}, {PyNone, PyStr("r1")}, {PyNone, PyStr("m1")},
               MinDates, {PyNone, PyStr("seen_at")})

\* insert_record with records of two row ids and two model ids, one of them
\* with a timestamp field of its own
InsertForRetrieval ==
    InsertOf({"training_features"}, {WithName, Retrieved, Dated}, {PyNone},
             {PyStr("m1"), PyNone})

\* every operation that reaches the store, each with one kind of input
AppendRecord ==
    InsertOf({"training_features"}, {WithName, Retrieved}, {PyNone}, {PyStr("m1")})

AppendBatch ==
    InsertOf({"training_features"}, {Table({"name", "age"}, MaxDocs)}, {PyNone},
             {PyStr("m1")})

AppendLabel ==
    \E row_id \in {PyStr("r1"), IdList(MaxDocs)} :
        Apply([op |-> "add_label", args |-> <<row_id, PyStr("m1")>>],
              add_label(Self, row_id, PyStr("m1"),
                        IF row_id.t = "list"
                        THEN PyList([i \in 1..MaxDocs |-> PyInt(i)])
                        ELSE PyInt(1)))

AppendPrediction == PredictOf({PyStr("m1")}, {WithName}, {PyNone})

ReadBack ==
    RetrieveOf({"training_features", "live_features"}, {PyNone}, {PyStr("m1")},
               {PyNone}, {PyNone})

\* check_row_id and check_model_id, called on a flat record as the tests do
CheckRowId ==
    \E val \in FlatRecords, row_id \in RowIdArgs :
        \A o \in {check_row_id(Self, val.v, row_id, PyNone)} :
            Apply([op |-> "check_row_id", args |-> <<val, row_id>>],
                  IF Raised(o) THEN o ELSE Return(o.self, PyDict(o.value)))

CheckModelId ==
    \E val \in FlatRecords, model_id \in ModelIdArgs :
        \A o \in {check_model_id(Self, val.v, model_id, PyNone)} :
            Apply([op |-> "check_model_id", args |-> <<val, model_id>>],
                  IF Raised(o) THEN o ELSE Return(o.self, PyDict(o.value)))

\* live and training tables to reconcile on the key k
RowsOver(values) ==
    {<<>>} \cup {<<r>> : r \in values} \cup {<<r1, r2>> : r1 \in values, r2 \in values}

LiveTables ==
    {DataFrame({"k", "a"}, rows) :
        rows \in RowsOver({[k |-> PyInt(k), a |-> PyInt(a)] : k \in {1, 2}, a \in {10, 20}})}

TrainingTables ==
    {DataFrame({"k", "b"}, rows) :
        rows \in RowsOver({[k |-> PyInt(k), b |-> PyInt(100)] : k \in {1, 2}})}

Reconcile ==
    \E df_live \in LiveTables, df_train \in TrainingTables, by_keyword \in BOOLEAN :
        Apply([op |-> "match_training_and_live",
               args |-> <<df_live, df_train, PyStr("k"), by_keyword>>],
              match_training_and_live(Self, df_train, df_live, PyStr("k"), by_keyword))

\* a record that retrieve_from_persistent_db returned is inserted again
ReinsertRetrieved ==
    \E i \in DOMAIN mdb["training_features"], row_id \in RowIdArgs,
       model_id \in {PyNone, PyStr("m1")} :
        Apply([op |-> "insert_into_persistent_db",
               args |-> <<PyDict(mdb["training_features"][i]), "training_features",
                          row_id, model_id>>],
              insert_into_persistent_db(Self, PyDict(mdb["training_features"][i]),
                                        "training_features", row_id, model_id))

\* add_model under one model_id, again and again
RegisterAgain == AddModelOf(Models, {PyStr("m1")}, Importances \ {PyNone})

\* add_model with the importances given, under either model_id
RegisterWell == AddModelOf(Models, ModelIds, Importances \ {PyNone})

\* predictions by the registered model, on a flat record and on a table
PredictOne ==
    PredictOf({PyStr("m1")}, {WithName, Table({"name", "age"}, MaxLive)}, {PyNone})

\* insert_record of a record without the default field and of one that was
\* retrieved before; insert_batch of a table with and without a model_id
PayloadRecord ==
    InsertOf({"training_features"}, {WithoutName, Retrieved}, RowIdArgs, {PyStr("m1")})

PayloadBatch ==
    InsertOf({"training_features"}, {Table({"name", "age"}, MaxDocs)}, {PyNone},
             {PyStr("m1"), PyNone})

\* payloads that are neither a flat record nor a table
Malformed == {PyList(<<WithName>>), PyStr("r1"), PyInt(1), PyNone}

InsertMalformed ==
    InsertOf({"training_features"}, Malformed, RowIdArgs, {PyStr("m1")})

AddDataAndPredictions ==
    \E features \in {WithName, PyList(<<WithName>>)} :
        Apply([op |-> "add_data_and_predictions",
               args |-> <<features, PyStr("m1"), PyStr("r1")>>],
              add_data_and_predictions(Self, PyStr("m1"), features,
                                       PyList(<<PyInt(0), PyInt(1)>>), PyStr("r1")))

Tick ==
    /\ call = Idle
    /\ clock < MaxClock
    /\ clock' = clock + 1
    /\ UNCHANGED <<default_row_id_field, rdb, mdb, call, ret, io, getters>>

\* _get_model, line by line: the call of instance g begins.  known: the
\* store holds a model_info document of model_id when the call begins.
GetBegin(g) ==
    \E model_id \in ModelIds :
        /\ getters[g].pc = "idle"
        /\ getters' = [getters EXCEPT ![g] =
               [IdleGetter EXCEPT !.pc = "get", !.model_id = model_id,
                                  !.known = Len(Select(mdb["model_info"],
                                                       [model_id |-> model_id])) > 0]]
        /\ UNCHANGED <<default_row_id_field, rdb, mdb, clock, call, ret, io>>

\* redis_result = self.rdb.get(redis_key_model), and the test for None
GetReadCache(g) ==
    LET key == make_redis_model_key(getters[g].model_id)
        miss == ~rdb_has(Self, key)
    IN  /\ getters[g].pc = "get"
        /\ getters' = [getters EXCEPT
               ![g].redis_result = IF miss THEN PyNone ELSE rdb_get(Self, key),
               ![g].missed = miss,
               ![g].pc = IF miss THEN "find" ELSE "decode"]
        /\ UNCHANGED <<default_row_id_field, rdb, mdb, clock, call, ret, io>>

\* mdb_result = self.retrieve_from_persistent_db(..), and the test for no result
GetFind(g) ==
    \E first \in Firsts :
        LET model_id == getters[g].model_id
            mdb_result == retrieve_from_persistent_db(Self, "model_info", PyNone,
                              model_id, PyNone, PyNone, first).value.v
        IN  /\ getters[g].pc = "find"
            /\ getters' = [getters EXCEPT ![g] =
                   IF Len(mdb_result) = 0
                   THEN [@ EXCEPT !.pc = "done",
                                  !.out = [exc |-> "ValueError",
                                           msg |-> NoModelMessage(model_id),
                                           value |-> PyNone]]
                   ELSE [@ EXCEPT !.pc = "set", !.mdb_result = mdb_result]]
            /\ UNCHANGED <<default_row_id_field, rdb, mdb, clock, call, ret, io>>

\* self.rdb.set(redis_key_model, model)
GetSetCache(g) ==
    /\ getters[g].pc = "set"
    /\ rdb' = rdb_set(Self, make_redis_model_key(getters[g].model_id),
                      getters[g].mdb_result[1]["model"]).rdb
    /\ getters' = [getters EXCEPT ![g].pc = "reread"]
    /\ UNCHANGED <<default_row_id_field, mdb, clock, call, ret, io>>

\* redis_result = self.rdb.get(redis_key_model), the second read
GetReread(g) ==
    LET key == make_redis_model_key(getters[g].model_id)
    IN  /\ getters[g].pc = "reread"
        /\ getters' = [getters EXCEPT
               ![g].redis_result = IF rdb_has(Self, key) THEN rdb_get(Self, key)
                                                         ELSE PyNone,
               ![g].pc = "decode"]
        /\ UNCHANGED <<default_row_id_field, rdb, mdb, clock, call, ret, io>>

\* dill.loads(codecs.decode(redis_result, 'base64')), and the return
GetDecode(g) ==
    LET redis_result == getters[g].redis_result
    IN  /\ getters[g].pc = "decode"
        /\ getters' = [getters EXCEPT
               ![g].pc = "done",
               ![g].out = IF base64_decodable(redis_result)
                          THEN [exc |-> "", msg |-> "",
                                value |-> dill_loads(base64_decode(redis_result))]
                          ELSE [exc |-> "TypeError",
                                msg |-> "decoding with 'base64' codec failed",
                                value |-> PyNone]]
        /\ UNCHANGED <<default_row_id_field, rdb, mdb, clock, call, ret, io>>

\* the caller of instance g goes on
GetEnd(g) ==
    /\ getters[g].pc = "done"
    /\ getters' = [getters EXCEPT ![g] = IdleGetter]
    /\ UNCHANGED <<default_row_id_field, rdb, mdb, clock, call, ret, io>>

GetLine ==
    \E g \in Getters :
        \/ GetBegin(g)
        \/ GetReadCache(g)
        \/ GetFind(g)
        \/ GetSetCache(g)
        \/ GetReread(g)
        \/ GetDecode(g)
        \/ GetEnd(g)

\* the cache loses an entry while no instance is in _get_model
EvictBetweenCalls ==
    /\ \A g \in Getters : getters[g].pc = "idle"
    /\ Evict

\* the whole system
Next ==
    \/ AddModel
    \/ GetModel
    \/ Evict
    \/ InsertRecord
    \/ InsertBatch
    \/ AddLabel
    \/ Predict
    \/ Retrieve
    \/ Tick
    \/ Continue

Spec == Init /\ [][Next]_vars

\* the model registry and its cache
NextRegistry ==
    \/ AddModel
    \/ GetModel
    \/ Evict
    \/ Continue

SpecRegistry == Init /\ [][NextRegistry]_vars

\* the ingestion pipeline
NextIngest ==
    \/ InsertRecord
    \/ InsertBatch
    \/ AddLabel
    \/ Continue

SpecIngest == Init /\ [][NextIngest]_vars

\* the ingestion pipeline on tables around the chunk size
NextChunks ==
    \/ InsertLargeBatch
    \/ Continue

SpecChunks == Init /\ [][NextChunks]_vars

\* the ingestion pipeline over a store driver that may fail
NextFaults ==
    \/ InsertBatchDriverFails
    \/ Continue

SpecFaults == Init /\ [][NextFaults]_vars

\* the prediction orchestrator over one model, registered once
RegisterOne ==
    /\ Len(mdb["model_info"]) = 0
    /\ AddModelOf({ModelObj("A")}, {PyStr("m1")}, Importances \ {PyNone})

NextPredict ==
    \/ RegisterOne
    \/ Predict
    \/ Evict
    \/ Continue

SpecPredict == Init /\ [][NextPredict]_vars

\* retrieval from a collection filled over time
NextRetrieve ==
    \/ InsertForRetrieval
    \/ Tick
    \/ Retrieve
    \/ Continue

SpecRetrieve == Init /\ [][NextRetrieve]_vars

\* every operation of the system on one store
NextStore ==
    \/ RegisterOne
    \/ GetModel
    \/ Evict
    \/ AppendRecord
    \/ AppendBatch
    \/ AppendLabel
    \/ AppendPrediction
    \/ ReadBack
    \/ Continue

SpecStore == Init /\ [][NextStore]_vars

\* identity resolution and the shapes of payload the pipeline is given
NextIdentity ==
    \/ InsertRecord
    \/ CheckRowId
    \/ CheckModelId
    \/ InsertMalformed
    \/ AddDataAndPredictions
    \/ Continue

SpecIdentity == Init /\ [][NextIdentity]_vars

\* the reconciliation of live and training tables
NextReconcile ==
    \/ Reconcile
    \/ Continue

SpecReconcile == Init /\ [][NextReconcile]_vars

\* records read from the store and inserted again, over time
NextReinsert ==
    \/ InsertForRetrieval
    \/ ReinsertRetrieved
    \/ Tick
    \/ Continue

SpecReinsert == Init /\ [][NextReinsert]_vars

\* the registry with every add_model complete
NextLookup ==
    \/ RegisterWell
    \/ GetModel
    \/ Evict
    \/ Continue

SpecLookup == Init /\ [][NextLookup]_vars

\* _get_model line by line on two instances while models are registered
NextRegisterRace ==
    \/ RegisterAgain
    \/ Continue
    \/ GetLine

SpecRegisterRace == Init /\ [][NextRegisterRace]_vars

\* insert_record, insert_batch and predict, as seen from their caller
NextPayload ==
    \/ RegisterOne
    \/ PayloadRecord
    \/ PayloadBatch
    \/ PredictOne
    \/ Continue

SpecPayload == Init /\ [][NextPayload]_vars

\* _get_model line by line on two instances, the cache losing entries at any time
NextGetEvict ==
    \/ RegisterOne
    \/ Continue
    \/ Evict
    \/ GetLine

SpecGetEvict == Init /\ [][NextGetEvict]_vars

\* _get_model line by line on two instances, the cache losing entries only
\* between calls
NextGetRace ==
    \/ RegisterOne
    \/ Continue
    \/ EvictBetweenCalls
    \/ GetLine

SpecGetRace == Init /\ [][NextGetRace]_vars

---------------------------------------------------------------------------
(* The model registry: C1 - C4                                             *)

\* the model_info documents registered under model_id, oldest first
ModelInfoOf(m, model_id) == Select(m["model_info"], [model_id |-> model_id])

\* a _get_model call is made in this step
GetStep == call = Idle /\ call'.op = "_get_model"

CacheHolds(r, model_id, blob) ==
    /\ make_redis_model_key(model_id) \in DOMAIN r
    /\ r[make_redis_model_key(model_id)] = str_encode(blob)

\* C1 (as claimed): after add_model(m, model_id), whatever was registered under
\* model_id before, _get_model(model_id) returns m, decoded from the blob that
\* add_model stored, both when the cache still holds that blob and when the
\* cache entry is gone; afterwards the cache holds that blob (again).
C1_GetReturnsLastRegistered ==
    [][GetStep =>
        LET model_id == call'.args[1]
            docs == ModelInfoOf(mdb, model_id)
            key == make_redis_model_key(model_id)
            last == docs[Len(docs)]["model"]
        IN  (/\ Len(docs) >= 1
             /\ key \in DOMAIN rdb => CacheHolds(rdb, model_id, last))
            => /\ ret'.exc = ""
               /\ \E m \in Models : /\ last = stringify_model(m)
                                    /\ ret'.value = m
               /\ CacheHolds(rdb', model_id, last)]_vars

\* C1, for a model_id registered once: with model m registered under model_id,
\* _get_model(model_id) returns m, decoded from the blob add_model stored, both
\* when the cache still holds that blob and when the cache entry is gone;
\* afterwards the cache holds that blob (again).
C1_GetReturnsRegistered ==
    [][GetStep =>
        LET model_id == call'.args[1]
            docs == ModelInfoOf(mdb, model_id)
            key == make_redis_model_key(model_id)
        IN  (/\ Len(docs) = 1
             /\ key \in DOMAIN rdb => CacheHolds(rdb, model_id, docs[1]["model"]))
            => /\ ret'.exc = ""
               /\ \E m \in Models : /\ docs[1]["model"] = stringify_model(m)
                                    /\ ret'.value = m
               /\ CacheHolds(rdb', model_id, docs[1]["model"])]_vars

\* C1 witness: a model came back from the store after its cache entry was lost,
\* and the cache holds its blob again
C1_Witness ==
    /\ call.op = "_get_model"
    /\ ret.exc = ""
    /\ \E i \in DOMAIN io : io[i].op = "mdb.find"
    /\ Len(ModelInfoOf(mdb, call.args[1])) = 1
    /\ ret.value = ModelObj("B")
    /\ CacheHolds(rdb, call.args[1], stringify_model(ModelObj("B")))

\* C2: _get_model(id), for an identifier id with no cache entry and no
\* model_info document, raises the ValueError whose message names id, returns
\* nothing and leaves the cache and the store as they were.
C2_UnknownModelRaises ==
    [][GetStep =>
        LET model_id == call'.args[1]
        IN  (/\ model_id.t = "str"
             /\ make_redis_model_key(model_id) \notin DOMAIN rdb
             /\ Len(ModelInfoOf(mdb, model_id)) = 0)
            => /\ ret'.exc = "ValueError"
               /\ ret'.msg = NoModelMessage(model_id)
               /\ ret'.msg[2] = model_id.v
               /\ ret'.value = PyNone
               /\ rdb' = rdb
               /\ mdb' = mdb]_vars

\* C2 witness: the call failed for an unregistered id while another model was
\* registered
C2_Witness ==
    /\ call.op = "_get_model"
    /\ call.args[1] = PyStr("m2")
    /\ ret.exc = "ValueError"
    /\ Len(ModelInfoOf(mdb, PyStr("m1"))) > 0
    /\ Len(ModelInfoOf(mdb, PyStr("m2"))) = 0

\* C3 (as claimed): on a cache miss _get_model returns the model of the most
\* recent model_info document of that model_id.
C3_MissReturnsMostRecent ==
    [][GetStep =>
        LET model_id == call'.args[1]
            docs == ModelInfoOf(mdb, model_id)
        IN  (/\ make_redis_model_key(model_id) \notin DOMAIN rdb
             /\ Len(docs) > 0)
            => /\ ret'.exc = ""
               /\ stringify_model(ret'.value) = docs[Len(docs)]["model"]]_vars

\* C4 (as claimed): add_model without feature_importances returns normally,
\* with the cache entry written and one model_info document of the same blob
\* added.
C4_RegisterWithoutImportances ==
    [][(/\ call = Idle
        /\ call'.op = "add_model"
        /\ call'.args[2].t = "str"
        /\ IsNone(call'.args[3]))
        => /\ ret'.exc = ""
           /\ CacheHolds(rdb', call'.args[2], stringify_model(call'.args[1]))
           /\ Len(mdb'["model_info"]) = Len(mdb["model_info"]) + 1
           /\ mdb'["model_info"][Len(mdb'["model_info"])]["model"]
                  = stringify_model(call'.args[1])]_vars

---------------------------------------------------------------------------
(* The ingestion pipeline: C5 - C7                                         *)

HasIdentity(doc) ==
    /\ "row_id" \in DOMAIN doc /\ ~IsNone(doc["row_id"])
    /\ "model_id" \in DOMAIN doc /\ ~IsNone(doc["model_id"])

\* C5 (as claimed): every document in the store has row_id and model_id, both
\* non-null.
C5_EveryRecordHasIdentity ==
    \A c \in ValTypes : \A i \in DOMAIN mdb[c] : HasIdentity(mdb[c][i])

SelfAfter ==
    [default_row_id_field |-> default_row_id_field', rdb |-> rdb', mdb |-> mdb',
     now |-> clock', io |-> <<>>, faulty |-> FALSE, serves |-> 0, partial |-> 0,
     failed |-> FALSE]

\* what retrieve_from_persistent_db returns for these filters, before and
\* after the step
RetrievedBefore(val_type, model_id) ==
    retrieve_from_persistent_db(Self, val_type, PyNone, model_id, PyNone, PyNone, 1).value.v

RetrievedAfter(val_type, model_id) ==
    retrieve_from_persistent_db(SelfAfter, val_type, PyNone, model_id,
                                PyNone, PyNone, 1).value.v

Project(doc, cols) == [k \in cols |-> doc[k]]

\* the retrieved documents that the step added: those with a new _id
NewOf(before, after) ==
    LET ids == {before[i]["_id"] : i \in DOMAIN before}
    IN  SelectSeq(after, LAMBDA d : d["_id"] \notin ids)

\* the documents new are the rows of the table, one each and in order
OnePerRow(table, new) ==
    /\ Len(new) = Len(table.rows)
    /\ \A rows \in {table.rows} :
          \A i \in DOMAIN new : Project(new[i], table.columns) = rows[i]
    /\ Cardinality({new[i]["_id"] : i \in DOMAIN new}) = Len(new)

\* C6: after insert_into_persistent_db has stored a table of N rows, retrieval
\* of that collection, unfiltered or filtered by the model_id the rows were
\* given, returns N documents more than before, one per row of the table,
\* whatever N is relative to chunk_size.
C6_BatchRetrievedWhole ==
    [][(/\ call = Idle
        /\ call'.op = "insert_into_persistent_db"
        /\ call'.args[1].t = "DataFrame"
        /\ call'.args[4].t = "str"
        /\ ret'.exc = "")
        => /\ Len(RetrievedAfter(call'.args[2], PyNone))
                = Len(RetrievedBefore(call'.args[2], PyNone)) + Len(call'.args[1].rows)
           /\ \A new \in {NewOf(RetrievedBefore(call'.args[2], PyNone),
                                RetrievedAfter(call'.args[2], PyNone))} :
                  OnePerRow(call'.args[1], new)
           /\ \A new \in {NewOf(RetrievedBefore(call'.args[2], call'.args[4]),
                                RetrievedAfter(call'.args[2], call'.args[4]))} :
                  OnePerRow(call'.args[1], new)]_vars

\* C6 witness: a table of two chunks and a half went in after an earlier row,
\* and all of it is in the collection
C6_Witness ==
    /\ call.op = "insert_into_persistent_db"
    /\ call.args[1].t = "DataFrame"
    /\ Len(call.args[1].rows) = 2 * chunk_size + chunk_size \div 2
    /\ ret.exc = ""
    /\ Len(io) = 3
    /\ Len(mdb["training_features"]) = 1 + 2 * chunk_size + chunk_size \div 2

\* the documents a step appended to a collection
Added(c) == SubSeq(mdb'[c], Len(mdb[c]) + 1, Len(mdb'[c]))

Kept(c) == SubSeq(mdb'[c], 1, Len(mdb[c])) = mdb[c]

ItemAt(x, i) == IF x.t = "list" THEN x.v[i] ELSE x

\* the i-th of the n added documents carries the i-th row_id and the model_id
Positional(c, n, row_id, model_id) ==
    /\ ret'.exc = ""
    /\ Kept(c)
    /\ Len(Added(c)) = n
    /\ \A i \in 1..n : /\ Added(c)[i]["row_id"] = row_id.v[i]
                       /\ Added(c)[i]["model_id"] = ItemAt(model_id, i)

BatchStep ==
    /\ call = Idle
    /\ call'.op = "insert_into_persistent_db"
    /\ call'.args[1].t = "DataFrame"
    /\ call'.args[3].t = "list"
    /\ call'.args[4].t \in {"str", "list"}

LabelStep ==
    /\ call = Idle
    /\ call'.op = "add_label"
    /\ call'.args[1].t = "list"
    /\ call'.args[2].t \in {"str", "list"}

\* C7 (as claimed): a batch ingested with a per-row row_id list and a model_id
\* (scalar, or a list of equal values) yields one document per row, the i-th
\* with the i-th row_id and all with that model_id.
C7_PositionalRowIds ==
    [][/\ BatchStep => Positional(call'.args[2], NRows(call'.args[1]),
                                  call'.args[3], call'.args[4])
       /\ LabelStep => Positional("live_labels", Len(call'.args[1].v),
                                  call'.args[1], call'.args[2])]_vars

\* C7 (amended): the same, for a table that has no row_id and no model_id
\* column of its own, and for the table add_label builds from its arguments.
C7_PositionalRowIdsOfBareTable ==
    [][/\ (/\ BatchStep
           /\ "row_id" \notin call'.args[1].columns
           /\ "model_id" \notin call'.args[1].columns)
          => Positional(call'.args[2], NRows(call'.args[1]),
                        call'.args[3], call'.args[4])
       /\ LabelStep => Positional("live_labels", Len(call'.args[1].v),
                                  call'.args[1], call'.args[2])]_vars

\* C7 witness: two rows went in after an earlier document, each with its own
\* row_id from the list
C7_Witness ==
    /\ call.op = "insert_into_persistent_db"
    /\ call.args[1].t = "DataFrame"
    /\ call.args[3].t = "list"
    /\ "row_id" \notin call.args[1].columns
    /\ ret.exc = ""
    /\ Len(io) = 1 /\ io[1].n = 2
    /\ LET docs == mdb[call.args[2]]
       IN  /\ Len(docs) >= 2
           /\ docs[Len(docs) - 1]["row_id"] = call.args[3].v[1]
           /\ docs[Len(docs)]["row_id"] = call.args[3].v[2]
           /\ docs[Len(docs)]["row_id"] # docs[Len(docs) - 1]["row_id"]

---------------------------------------------------------------------------
(* The prediction orchestrator: C8 - C10                                   *)

PredictStep == call = Idle /\ call'.op \in {"predict", "predict_proba"}

\* the row_id a prediction call resolves for its features
ResolvedRowId(features, row_id) ==
    IF IsNone(row_id) THEN FieldOf(features, default_row_id_field) ELSE row_id

CountOf(m, c, row_id, model_id) ==
    Len(Select(m[c], [row_id |-> row_id, model_id |-> model_id]))

\* C8: every prediction call that returns adds one live_features and one
\* live_predictions document per row of its features, under the identity of
\* that row, whatever the store already holds under that identity; the
\* documents stored before stay as they are.  So k calls with the same
\* features and model_id add k documents of each kind.
C8_NoDeduplication ==
    [][(PredictStep /\ ret'.exc = "") =>
        LET model_id == call'.args[1]
            features == call'.args[2]
            rid == ResolvedRowId(features, call'.args[3])
        IN  /\ Kept("live_features") /\ Kept("live_predictions")
            /\ Len(Added("live_features")) = NRows(features)
            /\ Len(Added("live_predictions")) = NRows(features)
            /\ \A i \in 1..NRows(features) :
                   LET same == Cardinality({j \in 1..NRows(features) :
                                               ItemAt(rid, j) = ItemAt(rid, i)})
                   IN  /\ CountOf(mdb', "live_features", ItemAt(rid, i), model_id)
                            = CountOf(mdb, "live_features", ItemAt(rid, i), model_id)
                              + same
                       /\ CountOf(mdb', "live_predictions", ItemAt(rid, i), model_id)
                            = CountOf(mdb, "live_predictions", ItemAt(rid, i), model_id)
                              + same
       ]_vars

\* C8 witness: the second of two calls with the same features and model_id has
\* returned, and both calls' documents are in the store
C8_Witness ==
    /\ call.op = "predict"
    /\ call.args[2] = WithName
    /\ ret.exc = ""
    /\ CountOf(mdb, "live_features", PyStr("r1"), PyStr("m1")) = 2
    /\ CountOf(mdb, "live_predictions", PyStr("r1"), PyStr("m1")) = 2
    /\ DictDel(mdb["live_features"][1], "_id") = DictDel(mdb["live_features"][2], "_id")
    /\ mdb["live_predictions"][1]["prediction"] = mdb["live_predictions"][2]["prediction"]

\* C9: a prediction call with no row_id on an instance without a default
\* row-id field raises ValueError before any I/O: nothing is written and
\* neither driver is called.
C9_MissingRowIdFailsFirst ==
    [][(/\ PredictStep
        /\ IsNone(call'.args[3])
        /\ IsNone(default_row_id_field))
        => /\ ret'.exc = "ValueError"
           /\ ret'.msg = "Missing row_id"
           /\ io' = <<>>
           /\ mdb' = mdb
           /\ rdb' = rdb]_vars

\* C9 witness: the call was refused although its model is registered and cached
C9_Witness ==
    /\ call.op = "predict"
    /\ call.args[1] = PyStr("m1")
    /\ IsNone(call.args[3])
    /\ IsNone(default_row_id_field)
    /\ ret.exc = "ValueError"
    /\ Len(ModelInfoOf(mdb, PyStr("m1"))) > 0
    /\ make_redis_model_key(PyStr("m1")) \in DOMAIN rdb

\* position of the first entry of the log with the given op and target, 0 if none
RECURSIVE IndexOf(_, _, _, _)
IndexOf(log, op, coll, from) ==
    IF from > Len(log) THEN 0
    ELSE IF log[from].op = op /\ log[from].coll = coll THEN from
    ELSE IndexOf(log, op, coll, from + 1)

Wrote(log, coll) ==
    \E i \in DOMAIN log : log[i].coll = coll /\ log[i].op \in {"mdb.insert_one",
                                                              "mdb.insert_many"}

\* C10: when the model's predict/predict_proba raises, the features of the call
\* are already in live_features (written before the model was called) and no
\* live_predictions document of the call exists.
C10_FeaturesLoggedBeforeInvocation ==
    [][(PredictStep /\ ret'.exc = "ModelError") =>
        LET features == call'.args[2]
            rid == ResolvedRowId(features, call'.args[3])
            invoked == IndexOf(io', IF call'.op = "predict" THEN "model.predict"
                                    ELSE "model.predict_proba", "model", 1)
        IN  /\ Kept("live_features")
            /\ Len(Added("live_features")) = NRows(features)
            /\ \A i \in 1..NRows(features) :
                   /\ Added("live_features")[i]["row_id"] = ItemAt(rid, i)
                   /\ Added("live_features")[i]["model_id"] = call'.args[1]
            /\ invoked > 0
            /\ Wrote(SubSeq(io', 1, invoked - 1), "live_features")
            /\ ~Wrote(io', "live_predictions")
            /\ mdb'["live_predictions"] = mdb["live_predictions"]]_vars

\* C10 witness: the model raised and the features of that call are stored,
\* without a prediction
C10_Witness ==
    /\ call.op = "predict_proba"
    /\ ret.exc = "ModelError"
    /\ Len(mdb["live_features"]) = 1
    /\ mdb["live_features"][1]["row_id"] = PyStr("r1")
    /\ Len(mdb["live_predictions"]) = 0

\* the documents of a step's log that are writes of one document to coll
InsertOnes(log, coll) ==
    Cardinality({i \in DOMAIN log : log[i].op = "mdb.insert_one" /\ log[i].coll = coll})

\* the identity of a prediction call resolves: a row_id is given, or the
\* features have the default row-id field
IdentityResolves(features, row_id) ==
    ~IsNone(row_id) \/ HasField(features, default_row_id_field)

\* C11 (as claimed): a prediction call with a resolvable row identity and a
\* model_id that is neither cached nor registered writes its live_features
\* record(s) and then fails with the ValueError naming the model_id.
C11_FeaturesLoggedBeforeModelResolved ==
    [][(/\ PredictStep
        /\ call'.args[1].t = "str"
        /\ make_redis_model_key(call'.args[1]) \notin DOMAIN rdb
        /\ Len(ModelInfoOf(mdb, call'.args[1])) = 0
        /\ IdentityResolves(call'.args[2], call'.args[3]))
        => /\ ret'.exc = "ValueError"
           /\ ret'.msg = NoModelMessage(call'.args[1])
           /\ Len(Added("live_features")) = NRows(call'.args[2])]_vars

\* C12: a prediction call that returns has appended one live_features and one
\* live_predictions document per row of its features (for a flat record: one
\* insert_one into each collection), the i-th of each carrying the row_id of
\* row i and the model_id of the call; a prediction call that fails, and every
\* other step, leaves live_predictions as it was.  So the number of
\* live_predictions documents is the number of rows of the calls that returned.
C12_OnePredictionPerSuccessfulCall ==
    [][/\ (PredictStep /\ ret'.exc = "") =>
            LET model_id == call'.args[1]
                features == call'.args[2]
                rid == ResolvedRowId(features, call'.args[3])
            IN  /\ Kept("live_features") /\ Kept("live_predictions")
                /\ Len(Added("live_features")) = NRows(features)
                /\ Len(Added("live_predictions")) = NRows(features)
                /\ \A i \in 1..NRows(features) :
                       /\ Added("live_features")[i]["row_id"] = ItemAt(rid, i)
                       /\ Added("live_predictions")[i]["row_id"] = ItemAt(rid, i)
                       /\ Added("live_features")[i]["model_id"] = model_id
                       /\ Added("live_predictions")[i]["model_id"] = model_id
                /\ features.t = "dict" =>
                       /\ InsertOnes(io', "live_features") = 1
                       /\ InsertOnes(io', "live_predictions") = 1
       /\ ~(PredictStep /\ ret'.exc = "")
            => mdb'["live_predictions"] = mdb["live_predictions"]]_vars

\* C12 witness: after one call that returned, a call for an unregistered
\* model_id failed, and the store holds the one prediction of the first
C12_Witness ==
    /\ call.op = "predict"
    /\ call.args[1] = PyStr("m2")
    /\ call.args[2] = WithName
    /\ ret.exc = "ValueError"
    /\ Len(mdb["live_predictions"]) = 1
    /\ Len(mdb["live_features"]) = 1
    /\ mdb["live_predictions"][1]["row_id"] = mdb["live_features"][1]["row_id"]

\* the model registered under model_id, as decoded from its model_info document
RegisteredModel(model_id) ==
    dill_loads(base64_decode(str_encode(ModelInfoOf(mdb, model_id)[1]["model"])))

\* C13: the value a prediction call returns is the output of the registered
\* model's predict (predict_proba) on the features of the call, not the
\* normalised copy stored in live_predictions.
C13_ReturnsModelOutput ==
    [][(PredictStep /\ ret'.exc = "") =>
        LET model == RegisteredModel(call'.args[1])
            features == call'.args[2]
        IN  ret'.value = IF call'.op = "predict_proba"
                         THEN model_predict_proba(model, features)
                         ELSE model_predict(model, features)]_vars

\* C13 witness: predict_proba returned an array for a flat record while the
\* stored prediction is the list made of it
C13_Witness ==
    /\ call.op = "predict_proba"
    /\ call.args[2] = WithName
    /\ ret.exc = ""
    /\ ret.value.t = "np.ndarray"
    /\ Len(mdb["live_predictions"]) > 0
    /\ LET stored == mdb["live_predictions"][Len(mdb["live_predictions"])]["prediction"]
       IN  stored.t = "list" /\ stored.v = ret.value.v /\ stored # ret.value


---------------------------------------------------------------------------
(* The model registry again: C14, C19                                      *)

\* C14 (as claimed): _get_model(model_id) returns a model only if the store
\* holds a model_info document of that model_id, also after an add_model that
\* ended between its cache write and its store write.
C14_GetOnlyReturnsStored ==
    [][(GetStep /\ call'.args[1].t = "str" /\ ret'.exc = "")
        => Len(ModelInfoOf(mdb', call'.args[1])) > 0]_vars

\* an add_model call is made in this step
AddStep == call = Idle /\ call'.op = "add_model"

\* C19: add_model(m, model_id) that returns leaves the blob of m in the cache
\* under model_id, whatever was cached there, and appends one model_info
\* document of that blob, keeping the earlier ones; _get_model on a cache hit
\* returns the model of the cached blob and changes nothing.  So after
\* add_model(m1, id), add_model(m2, id) the cache holds m2, the store holds
\* two documents and _get_model(id) returns m2.
C19_ReRegisterOverwritesCache ==
    [][/\ (AddStep /\ call'.args[2].t = "str" /\ ret'.exc = "") =>
            LET model_id == call'.args[2]
                blob == stringify_model(call'.args[1])
                before == ModelInfoOf(mdb, model_id)
                after == ModelInfoOf(mdb', model_id)
            IN  /\ CacheHolds(rdb', model_id, blob)
                /\ Len(after) = Len(before) + 1
                /\ SubSeq(after, 1, Len(before)) = before
                /\ after[Len(after)]["model"] = blob
       /\ (GetStep /\ make_redis_model_key(call'.args[1]) \in DOMAIN rdb) =>
            /\ ret'.exc = ""
            /\ CacheHolds(rdb, call'.args[1], stringify_model(ret'.value))
            /\ rdb' = rdb
            /\ mdb' = mdb]_vars

\* C19 witness: B was registered over A under m1, and _get_model returned B
\* from the cache while the store holds both documents
C19_Witness ==
    /\ call.op = "_get_model"
    /\ call.args[1] = PyStr("m1")
    /\ ret.exc = ""
    /\ ret.value = ModelObj("B")
    /\ \A i \in DOMAIN io : io[i].op # "mdb.find"
    /\ LET docs == ModelInfoOf(mdb, PyStr("m1"))
       IN  /\ Len(docs) = 2
           /\ docs[1]["model"] = stringify_model(ModelObj("A"))
           /\ docs[2]["model"] = stringify_model(ModelObj("B"))


---------------------------------------------------------------------------
(* _get_model line by line: C15, C16                                       *)

\* C15 (as claimed): a _get_model call that begins while the store holds a
\* model_info document of its model_id returns a model, whenever the cache
\* entry disappears: before the call, during it, or between the call's
\* rdb.set and its return.
C15_GetToleratesEviction ==
    \A g \in Getters :
        (getters[g].pc = "done" /\ getters[g].known) => getters[g].out.exc = ""

\* C16: with the cache losing no entry during the calls, every _get_model call
\* of two instances running line by line that began with its model registered
\* returns the registered model, and when it returns the cache holds the blob
\* of the model_info document.
C16_ConcurrentMissesAgree ==
    \A g \in Getters :
        (getters[g].pc = "done" /\ getters[g].known)
        => /\ getters[g].out.exc = ""
           /\ getters[g].out.value = RegisteredModel(getters[g].model_id)
           /\ CacheHolds(rdb, getters[g].model_id,
                         ModelInfoOf(mdb, getters[g].model_id)[1]["model"])

\* C16 witness: both instances missed the cache, both wrote it, and both have
\* returned the registered model
C16_Witness ==
    \A g \in Getters :
        /\ getters[g].pc = "done"
        /\ getters[g].model_id = PyStr("m1")
        /\ getters[g].known
        /\ getters[g].missed
        /\ Len(getters[g].mdb_result) = 1
        /\ getters[g].out.value = ModelObj("A")


---------------------------------------------------------------------------
(* The ingestion pipeline over a failing driver: C17                       *)

\* insert_batch is called over a driver that fails in chunk k of the table,
\* and the identity columns of the table can be filled
FailingBatchStep ==
    /\ call = Idle
    /\ call'.op = "insert_into_persistent_db"
    /\ Len(call'.args) = 6
    /\ call'.args[5] * chunk_size < Len(call'.args[1].rows)
    /\ ~IsNone(call'.args[3]) \/ DefaultFieldIsColumn(Self, call'.args[1])

\* the step's log: k chunks written, then the one insert_many that raised
OneFailedAttempt(log, k) ==
    /\ Len(log) = k + 1
    /\ \A i \in 1..k : log[i].op = "mdb.insert_many" /\ log[i].n = chunk_size
    /\ log[k + 1].op = "mdb.insert_many raised"

\* the documents added are the first rows of the table, in row order
PrefixOfTable(table, added) ==
    \A rows \in {table.rows} :
        /\ Len(added) <= Len(rows)
        /\ \A i \in DOMAIN added : Project(added[i], table.columns) = rows[i]

\* C17 (as claimed): when the driver fails while insert_batch writes chunk k,
\* exactly the rows of chunks 0..k-1 are in the store, the error reaches the
\* caller, the chunk is not retried, later chunks are not attempted and
\* nothing is rolled back.
C17_ExactlyEarlierChunksStored ==
    [][FailingBatchStep =>
        \A added \in {Added(call'.args[2])} :
            /\ ret'.exc = "DriverError"
            /\ Kept(call'.args[2])
            /\ Len(added) = call'.args[5] * chunk_size
            /\ PrefixOfTable(call'.args[1], added)
            /\ OneFailedAttempt(io', call'.args[5])]_vars

\* C17 (amended): the store then holds the rows of chunks 0..k-1 and, after
\* them, the rows of chunk k that the driver wrote before it failed: a prefix
\* of the table in row order that ends inside chunk k; the error reaches the
\* caller, the chunk is not retried, later chunks are not attempted and
\* nothing is rolled back.
C17_PrefixStored ==
    [][FailingBatchStep =>
        \A added \in {Added(call'.args[2])} :
            /\ ret'.exc = "DriverError"
            /\ Kept(call'.args[2])
            /\ Len(added) >= call'.args[5] * chunk_size
            /\ Len(added) < Min(Len(call'.args[1].rows),
                                (call'.args[5] + 1) * chunk_size)
            /\ PrefixOfTable(call'.args[1], added)
            /\ OneFailedAttempt(io', call'.args[5])]_vars

\* C17 witness: the driver failed in the third chunk of a table of two chunks
\* and a half after one row of it; two chunks and that row are stored, after
\* the row stored before
C17_Witness ==
    /\ call.op = "insert_into_persistent_db"
    /\ Len(call.args) = 6
    /\ Len(call.args[1].rows) = 2 * chunk_size + chunk_size \div 2
    /\ call.args[5] = 2
    /\ ret.exc = "DriverError"
    /\ Len(io) = 3
    /\ Len(mdb["training_features"]) = 1 + 2 * chunk_size + 1


---------------------------------------------------------------------------
(* Retrieval: C20                                                          *)

RetrieveStep == call = Idle /\ call'.op = "retrieve_from_persistent_db"

\* the document is one the caller asked for: its row_id and model_id are the
\* given ones (any if None), and its timestamp field (the creation timestamp
\* unless a field is named) is at or after min_timestamp, if one is given
Wanted(doc, row_id, model_id, min_timestamp, timestamp_field) ==
    /\ IsNone(row_id) \/ ("row_id" \in DOMAIN doc /\ doc["row_id"] = row_id)
    /\ IsNone(model_id) \/ ("model_id" \in DOMAIN doc /\ doc["model_id"] = model_id)
    /\ IsNone(min_timestamp)
       \/ LET f == IF IsNone(timestamp_field) THEN "_concordia_created_at"
                                              ELSE timestamp_field.v
          IN  /\ f \in DOMAIN doc
              /\ doc[f].t = "datetime"
              /\ doc[f].v >= min_timestamp.v

\* C20: retrieve_from_persistent_db returns the documents of the collection
\* that are wanted by its filters, every one of them once and no other, also
\* when several share a (row_id, model_id); it changes nothing.
C20_RetrieveReturnsMatching ==
    [][RetrieveStep =>
        \A result \in {ret'.value.v}, stored \in {mdb[call'.args[1]]} :
            /\ ret'.exc = ""
            /\ \A i \in DOMAIN stored :
                   Cardinality({j \in DOMAIN result : result[j] = stored[i]})
                     = IF Wanted(stored[i], call'.args[2], call'.args[3],
                                 call'.args[4], call'.args[5]) THEN 1 ELSE 0
            /\ \A j \in DOMAIN result : \E i \in DOMAIN stored : result[j] = stored[i]
            /\ mdb' = mdb
            /\ rdb' = rdb]_vars

\* C20 witness: of two documents of one (row_id, model_id) stored at different
\* times, a retrieval by that identity returned both and a retrieval with a
\* minimum timestamp returns the later one only
C20_Witness ==
    /\ call.op = "retrieve_from_persistent_db"
    /\ call.args[2] = PyStr("r1")
    /\ call.args[3] = PyStr("m1")
    /\ IsNone(call.args[4])
    /\ ret.exc = ""
    /\ Len(ret.value.v) = 2
    /\ ret.value.v[1]["row_id"] = ret.value.v[2]["row_id"]
    /\ ret.value.v[1]["model_id"] = ret.value.v[2]["model_id"]
    /\ ret.value.v[1]["_concordia_created_at"] # ret.value.v[2]["_concordia_created_at"]
    /\ Len(Select(mdb["training_features"],
                  QueryParams(PyStr("r1"), PyStr("m1"), DateTime(1), PyNone))) = 1


---------------------------------------------------------------------------
(* The store is append-only: C18                                           *)

\* C18: no step of add_model, insert_into_persistent_db (record or table),
\* add_label, predict, predict_proba, _get_model or
\* retrieve_from_persistent_db removes or changes a stored document: in every
\* collection the documents of before are the first documents of after.
C18_AppendOnly ==
    [][\A c \in ValTypes :
          /\ Len(mdb'[c]) >= Len(mdb[c])
          /\ Kept(c)]_vars

\* C18 witness: models, records, labels, features and predictions are stored,
\* a record was stored twice, and a retrieval has just read them back
C18_Witness ==
    /\ call.op = "retrieve_from_persistent_db"
    /\ call.args[1] = "training_features"
    /\ Len(ret.value.v) = 2
    /\ DictDel(ret.value.v[1], "_id") = DictDel(ret.value.v[2], "_id")
    /\ Len(mdb["model_info"]) > 0
    /\ Len(mdb["live_features"]) > 0
    /\ Len(mdb["live_predictions"]) > 0


---------------------------------------------------------------------------
(* Identity resolution and payload shapes: C21 - C23                       *)

\* insert_into_persistent_db is called with a flat record
InsertRecordStep ==
    /\ call = Idle
    /\ call'.op = "insert_into_persistent_db"
    /\ call'.args[1].t = "dict"

\* the payload has a value at the field
ValueAt(val, field) ==
    /\ field.t = "str"
    /\ field.v \in DOMAIN val.v
    /\ ~IsNone(val.v[field.v])

RowIdUnresolvable(val, row_id) == IsNone(row_id) /\ ~ValueAt(val, default_row_id_field)

ModelIdUnresolvable(val, model_id) == IsNone(model_id) /\ ~ValueAt(val, PyStr("model_id"))

\* C21: insert_into_persistent_db of a flat record with no row_id argument and
\* no value at the default row-id field raises the ValueError that names
\* row_id; with a row identity that resolves, no model_id argument and no
\* model_id field it raises the ValueError that names model_id; in both cases
\* no driver is called and the store is as before.
C21_UnresolvedIdentityRaises ==
    [][InsertRecordStep =>
        LET val == call'.args[1]
            row_id == call'.args[3]
            model_id == call'.args[4]
        IN  /\ RowIdUnresolvable(val, row_id)
                => /\ ret'.exc = "ValueError"
                   /\ ret'.msg = "Missing \"row_id\" field"
                   /\ io' = <<>>
                   /\ mdb' = mdb
            /\ (~RowIdUnresolvable(val, row_id) /\ ModelIdUnresolvable(val, model_id))
                => /\ ret'.exc = "ValueError"
                   /\ ret'.msg = "Missing \"model_id\" field"
                   /\ io' = <<>>
                   /\ mdb' = mdb]_vars

\* C21 witness: a record with its row_id resolved from the default field and
\* no model_id was refused after another record had been stored
C21_Witness ==
    /\ call.op = "insert_into_persistent_db"
    /\ call.args[1] = WithName
    /\ IsNone(call.args[3])
    /\ IsNone(call.args[4])
    /\ default_row_id_field = PyStr("name")
    /\ ret.exc = "ValueError"
    /\ ret.msg = "Missing \"model_id\" field"
    /\ Len(mdb["training_features"]) = 1

CheckRowIdStep == call = Idle /\ call'.op = "check_row_id"

CheckModelIdStep == call = Idle /\ call'.op = "check_model_id"

\* the payload with the key set to the value, all else as it was
WithKey(val, key, value) ==
    [k \in DOMAIN val.v \cup {key} |-> IF k = key THEN value ELSE val.v[k]]

\* C22: check_row_id on a flat record with no row_id argument takes the
\* record's value at the default row-id field; check_row_id and check_model_id
\* that return give back the record with the resolved value under "row_id"
\* ("model_id"), so that a record stored by insert_into_persistent_db has
\* both keys, with the resolved values.
C22_ResolvedIdentityWritten ==
    [][/\ (CheckRowIdStep /\ ret'.exc = "") =>
            LET val == call'.args[1]
                row_id == call'.args[2]
            IN  /\ IsNone(row_id) => ValueAt(val, default_row_id_field)
                /\ ret'.value.v =
                       WithKey(val, "row_id",
                               IF IsNone(row_id) THEN val.v[default_row_id_field.v]
                                                 ELSE row_id)
       /\ (CheckModelIdStep /\ ret'.exc = "") =>
            LET val == call'.args[1]
                model_id == call'.args[2]
            IN  /\ IsNone(model_id) => ValueAt(val, PyStr("model_id"))
                /\ ret'.value.v =
                       WithKey(val, "model_id",
                               IF IsNone(model_id) THEN val.v["model_id"] ELSE model_id)
       /\ (InsertRecordStep /\ ret'.exc = "") =>
            LET val == call'.args[1]
                row_id == call'.args[3]
                model_id == call'.args[4]
            IN  \A added \in {Added(call'.args[2])} :
                    /\ Len(added) = 1
                    /\ {"row_id", "model_id"} \subseteq DOMAIN added[1]
                    /\ added[1]["row_id"] =
                           IF IsNone(row_id) THEN val.v[default_row_id_field.v]
                                             ELSE row_id
                    /\ added[1]["model_id"] =
                           IF IsNone(model_id) THEN val.v["model_id"] ELSE model_id
      ]_vars

\* C22 witness: check_row_id without a row_id gave back the record with its
\* name under "row_id"
C22_Witness ==
    /\ call.op = "check_row_id"
    /\ call.args[1] = WithName
    /\ IsNone(call.args[2])
    /\ ret.exc = ""
    /\ "row_id" \notin DOMAIN call.args[1].v
    /\ ret.value.v["row_id"] = PyStr("r1")
    /\ ret.value.v["name"] = PyStr("r1")

\* an ingestion call is made in this step
IngestStep ==
    /\ call = Idle
    /\ call'.op \in {"insert_into_persistent_db", "add_data_and_predictions"}

\* C23 (as claimed): an ingestion call whose payload is neither a flat record
\* nor a table raises TypeError and leaves the store as it was.
C23_MalformedPayloadRaisesTypeError ==
    [][(IngestStep /\ call'.args[1].t \notin {"dict", "DataFrame"})
        => /\ ret'.exc = "TypeError"
           /\ mdb' = mdb]_vars


---------------------------------------------------------------------------
(* Reconciliation: C24                                                     *)

\* the left outer join of the claim: per live row, one row for each training
\* row of the same key, or one row with null training columns
JoinedRow(l, t, cols) ==
    [c \in cols |-> IF c \in DOMAIN l THEN l[c]
                    ELSE IF c \in DOMAIN t THEN t[c] ELSE PyNone]

RowsFor(l, training, key, cols) ==
    LET m == SelectSeq(training.rows, LAMBDA t : t[key] = l[key])
    IN  IF Len(m) = 0 THEN <<JoinedRow(l, <<>>, cols)>>
        ELSE [i \in 1..Len(m) |-> JoinedRow(l, m[i], cols)]

RECURSIVE JoinFrom(_, _, _, _, _)
JoinFrom(live, training, key, cols, i) ==
    IF i > Len(live.rows) THEN <<>>
    ELSE RowsFor(live.rows[i], training, key, cols)
         \o JoinFrom(live, training, key, cols, i + 1)

LeftJoin(live, training, key) ==
    DataFrame(live.columns \cup training.columns,
              JoinFrom(live, training, key, live.columns \cup training.columns, 1))

\* C24 (as claimed): match_training_and_live on live and training tables
\* returns their left outer join on the key: every live row, once per matching
\* training row or once with null training columns, and no training-only row.
C24_ReconcileIsLeftJoin ==
    [][(call = Idle /\ call'.op = "match_training_and_live")
        => /\ ret'.exc = ""
           /\ ret'.value = LeftJoin(call'.args[1], call'.args[2], call'.args[3].v)]_vars

---------------------------------------------------------------------------
(* The chunk loop: C25                                                     *)

RECURSIVE RowsWritten(_, _)
RowsWritten(log, i) == IF i > Len(log) THEN 0 ELSE log[i].n + RowsWritten(log, i + 1)

\* insert_batch is called with a table whose identity columns can be filled,
\* so that the chunk loop is reached
ChunkLoopStep ==
    /\ call = Idle
    /\ call'.op = "insert_into_persistent_db"
    /\ call'.args[1].t = "DataFrame"
    /\ ~IsNone(call'.args[3]) \/ DefaultFieldIsColumn(Self, call'.args[1])
    /\ ~IsNone(call'.args[4])

\* C25: for a table of N rows the chunk loop ends after ceil(N / chunk_size)
\* insert_many calls, none for N = 0, each of 1 to chunk_size rows; the calls
\* write N rows in all, and the documents added are the rows of the table in
\* row order, so the chunks are consecutive, disjoint and cover the table.
C25_ChunksCoverTable ==
    [][ChunkLoopStep =>
        \A added \in {Added(call'.args[2])}, log \in {io'} :
            /\ ret'.exc = ""
            /\ Len(log) = (Len(call'.args[1].rows) + chunk_size - 1) \div chunk_size
            /\ \A i \in DOMAIN log : /\ log[i].op = "mdb.insert_many"
                                      /\ log[i].coll = call'.args[2]
                                      /\ log[i].n >= 1
                                      /\ log[i].n <= chunk_size
            /\ RowsWritten(log, 1) = Len(call'.args[1].rows)
            /\ Len(added) = Len(call'.args[1].rows)
            /\ PrefixOfTable(call'.args[1], added)
            /\ Kept(call'.args[2])]_vars

\* C25 witness: after an earlier row, a table of one row more than a chunk
\* went in as a full chunk and a chunk of one row
C25_Witness ==
    /\ call.op = "insert_into_persistent_db"
    /\ call.args[1].t = "DataFrame"
    /\ Len(call.args[1].rows) = chunk_size + 1
    /\ ret.exc = ""
    /\ Len(io) = 2
    /\ io[1].n = chunk_size
    /\ io[2].n = 1
    /\ Len(mdb["training_features"]) = 1 + chunk_size + 1

---------------------------------------------------------------------------
(* Records inserted again: C26                                             *)

\* the _id values of all stored documents
StoredIds(m) == UNION {{m[c][i]["_id"] : i \in DOMAIN m[c]} : c \in ValTypes}

\* C26: an insert_into_persistent_db that returns, given a flat record that
\* carries an _id (as a retrieved record does), adds one document with an _id
\* that no stored document has and with the time of this call as its creation
\* timestamp, its other fields being those of the record; the documents stored
\* before, the one the record came from among them, stay as they are.
C26_ReinsertAddsFreshRecord ==
    [][(/\ InsertRecordStep
        /\ "_id" \in DOMAIN call'.args[1].v
        /\ ret'.exc = "")
        => \A added \in {Added(call'.args[2])} :
               /\ Len(added) = 1
               /\ added[1]["_id"] \notin StoredIds(mdb)
               /\ added[1]["_id"] # call'.args[1].v["_id"]
               /\ added[1]["_concordia_created_at"] = DateTime(clock)
               /\ \A k \in DOMAIN call'.args[1].v \
                          {"_id", "_id_", "_concordia_created_at", "row_id", "model_id"} :
                      added[1][k] = call'.args[1].v[k]
               /\ \A c \in ValTypes : Kept(c)]_vars

\* C26 witness: a record stored at time 0 was read and inserted again at time
\* 1; both are stored, under different _id values and creation timestamps
C26_Witness ==
    /\ call.op = "insert_into_persistent_db"
    /\ call.args[1].t = "dict"
    /\ ret.exc = ""
    /\ Len(mdb["training_features"]) = 2
    /\ LET docs == mdb["training_features"]
       IN  /\ call.args[1].v = docs[1]
           /\ docs[1]["_concordia_created_at"] = DateTime(0)
           /\ docs[2]["_concordia_created_at"] = DateTime(1)
           /\ docs[2]["_id"] # docs[1]["_id"]
           /\ docs[2]["name"] = docs[1]["name"]


---------------------------------------------------------------------------
(* The registry and foreign identifiers: C27, C28                          *)

\* the blobs of the model_info documents registered under model_id
BlobsOf(m, model_id) ==
    {m["model_info"][i]["model"] :
        i \in {j \in DOMAIN m["model_info"] : m["model_info"][j]["model_id"] = model_id}}

\* C27 (as claimed): for every model_id, None included, the model that
\* _get_model(model_id) returns and the blob it writes to the cache under the
\* key of model_id are those of a model_info document of that model_id.
C27_GetServesRequestedId ==
    [][GetStep =>
        LET model_id == call'.args[1]
            key == make_redis_model_key(model_id)
        IN  /\ ret'.exc = "" => stringify_model(ret'.value) \in BlobsOf(mdb, model_id)
            /\ (key \in DOMAIN rdb' /\ key \notin DOMAIN rdb)
                => \E blob \in BlobsOf(mdb, model_id) : rdb'[key] = str_encode(blob)]_vars

\* C28 (as claimed): when no add_model and no _get_model call is in progress,
\* the cache entry of a model_id, if there is one, is the blob of the last
\* add_model that completed for it.
C28_CacheHoldsLastRegistered ==
    (\A g \in Getters : getters[g].pc \in {"idle", "done"})
    => \A model_id \in ModelIds :
           LET key == make_redis_model_key(model_id)
               docs == ModelInfoOf(mdb, model_id)
           IN  (key \in DOMAIN rdb /\ Len(docs) > 0)
               => rdb[key] = str_encode(docs[Len(docs)]["model"])

\* C28 witness: an instance that missed the cache read the one model_info
\* document of A, B was registered, and the instance then wrote the blob of A
\* over the blob of B
C28_Witness ==
    /\ call = Idle
    /\ getters["g1"].pc = "done"
    /\ getters["g1"].missed
    /\ Len(getters["g1"].mdb_result) = 1
    /\ getters["g1"].out.value = ModelObj("A")
    /\ getters["g2"].pc = "idle"
    /\ LET docs == ModelInfoOf(mdb, PyStr("m1"))
       IN  /\ Len(docs) = 2
           /\ docs[1]["model"] = stringify_model(ModelObj("A"))
           /\ docs[2]["model"] = stringify_model(ModelObj("B"))
    /\ CacheHolds(rdb, PyStr("m1"), stringify_model(ModelObj("A")))

---------------------------------------------------------------------------
(* Explicit identifiers and carried ones: C29                              *)

TableStep ==
    /\ call = Idle
    /\ call'.op = "insert_into_persistent_db"
    /\ call'.args[1].t = "DataFrame"

\* the documents added carry the identifier given for the key, where one is given
CarryExplicit(added, key, id) ==
    ~IsNone(id) => \A i \in DOMAIN added : added[i][key] = ItemAt(id, i)

\* the documents added carry the table's own column for the key
CarryColumn(added, table, key) ==
    \A i \in DOMAIN added : added[i][key] = table.rows[i][key]

\* C29 (as claimed): a row_id or model_id argument goes into the stored
\* documents whether or not the payload has a row_id or model_id field
\* (column) of its own, for a flat record and for a table alike.
C29_ExplicitIdentityWins ==
    [][((InsertRecordStep \/ TableStep) /\ ret'.exc = "") =>
        \A added \in {Added(call'.args[2])} :
            /\ Len(added) = NRows(call'.args[1])
            /\ CarryExplicit(added, "row_id", call'.args[3])
            /\ CarryExplicit(added, "model_id", call'.args[4])]_vars

\* C29 (amended): for a flat record the argument goes into the stored
\* document whatever the record carries; for a table the argument fills the
\* column only if the table has no such column, and a column the table has
\* is stored as it is.
C29_ExplicitWinsUnlessColumn ==
    [][/\ (InsertRecordStep /\ ret'.exc = "") =>
            \A added \in {Added(call'.args[2])} :
                /\ Len(added) = 1
                /\ CarryExplicit(added, "row_id", call'.args[3])
                /\ CarryExplicit(added, "model_id", call'.args[4])
       /\ (TableStep /\ ret'.exc = "") =>
            \A added \in {Added(call'.args[2])}, table \in {call'.args[1]} :
                /\ Len(added) = Len(table.rows)
                /\ IF "row_id" \in table.columns
                   THEN CarryColumn(added, table, "row_id")
                   ELSE CarryExplicit(added, "row_id", call'.args[3])
                /\ IF "model_id" \in table.columns
                   THEN CarryColumn(added, table, "model_id")
                   ELSE CarryExplicit(added, "model_id", call'.args[4])]_vars

\* C29 witness: a record that carries row_id and model_id was inserted under
\* another row_id and model_id, and is stored under those
C29_Witness ==
    /\ call.op = "insert_into_persistent_db"
    /\ call.args[1] = Retrieved
    /\ call.args[3] = PyStr("r1")
    /\ call.args[4] = PyStr("m1")
    /\ ret.exc = ""
    /\ LET docs == mdb["training_features"]
       IN  /\ Len(docs) > 0
           /\ docs[Len(docs)]["row_id"] = PyStr("r1")
           /\ docs[Len(docs)]["model_id"] = PyStr("m1")
           /\ docs[Len(docs)]["row_id"] # call.args[1].v["row_id"]
           /\ docs[Len(docs)]["model_id"] # call.args[1].v["model_id"]

---------------------------------------------------------------------------
(* The caller's payload: C30                                               *)

===========================================================================
